---- MODULE Spec2Model ----
(***************************************************************************)
(* Identity & access control of the Express server: SysUserService         *)
(* (services/sysUserService.js), the jwtAuth middleware, the users/auth    *)
(* routes, the Redis wrapper and the User models.                          *)
(*                                                                         *)
(* Every handler is a sequence of steps, one per group of awaits, so that  *)
(* requests of several workers interleave.  The clock `now` is Date.now()  *)
(* in milliseconds.  A role is identified with its role code.              *)
(***************************************************************************)
EXTENDS Integers, Sequences, FiniteSets, TLC

(* ------------------------------ bounds -------------------------------- *)
\* clock resolution: the clock advances in steps of 1000 \div TicksPerSecond ms
TicksPerSecond == 2
\* number of clock steps a behaviour may take
MaxTicks == 4
\* config.jwt.expiresIn, in seconds
ExpiresInSec == 2
\* requests in flight at the same time
MaxReq == 2
\* largest expiry, in seconds, passed to acquireLock
MaxTtl == 2
\* requests writing users (register, POST, PUT, DELETE) started in a behaviour
MaxWrites == 3
\* largest failedLoginAttempts a stored row starts with
MaxFailed == 6
\* completed login calls counted per user
MaxCalls == 5

(* -------------------------- program constants ------------------------- *)
MsPerSecond == 1000
FailThreshold == 5
LockMinutes == 30
SecondsPerMinute == 60

TickMs == MsPerSecond \div TicksPerSecond
LockWindowMs == LockMinutes * SecondsPerMinute * MsPerSecond

(* ------------------------------- data --------------------------------- *)
UserIds == {"u1", "u2", "u3"}
NoUser == "none"
Tenants == {"t1", "t2"}
ADMIN == "admin"
MANAGER == "manager"
USER == "user"
Roles == {ADMIN, MANAGER, USER}
\* sys_user.status: 1 normal (USER_STATUS.ACTIVE), 2 frozen (USER_STATUS.INACTIVE)
STATUS_NORMAL == "1"
STATUS_FROZEN == "2"
Passwords == {"Correct1!", "Wr0ng!"}
Slots == 1 .. MaxReq

\* bcrypt.hash(password, salt) and bcrypt.compare(candidate, hash)
Hash(pw, salt) == [salt |-> salt, of |-> pw]
validatePassword(row, candidate) == Hash(candidate, row.password.salt) = row.password

\* sys_permission rows: perms is the permission code ("" for null, as of a
\* menu entry without code), del_flag 1 marks a soft-deleted row, status "1"
\* a valid one
PermIds == {"p1", "p2", "p3", "p4", "p5", "p6"}
PermissionRows ==
  [p \in PermIds |->
     CASE p = "p1" -> [perms |-> "user:read", del_flag |-> 0, status |-> "1"]
       [] p = "p2" -> [perms |-> "user:update", del_flag |-> 0, status |-> "1"]
       [] p = "p3" -> [perms |-> "user:delete", del_flag |-> 0, status |-> "1"]
       [] p = "p4" -> [perms |-> "user:export", del_flag |-> 1, status |-> "1"]
       [] p = "p5" -> [perms |-> "user:import", del_flag |-> 0, status |-> "0"]
       [] OTHER -> [perms |-> "", del_flag |-> 0, status |-> "1"]]

\* sys_role_permission: the permissions of each role, in the order the
\* query returns them
RolePermissions ==
  [r \in Roles |->
     CASE r = ADMIN -> <<"p1", "p2", "p3", "p4", "p6">>
       [] r = MANAGER -> <<"p2", "p1", "p5">>
       [] OTHER -> <<"p1", "p6">>]

VARIABLES
  now,        \* Date.now(), ms
  store,      \* committed rows of the user table, by id
  cache,      \* Redis keys user:<id>
  blacklist,  \* Redis keys blacklist:<token>
  redisUp,    \* the Redis client is connected
  tokens,     \* tokens signed so far
  req,        \* requests in flight, one per slot
  hist,       \* history of completed calls, read by the properties only
  locks,      \* Redis keys lock:<name>
  connections, \* the cached database connection, connections[type]
  redisClient  \* the RedisClient singleton: client, isConnected, retryCount

vars == <<now, store, cache, blacklist, redisUp, tokens, req, hist, locks,
         connections, redisClient>>

(* ------------------------------ rows ---------------------------------- *)
NoRow ==
  [exists |-> FALSE, del_flag |-> 0, status |-> STATUS_NORMAL, roles |-> {},
   tenantId |-> "t1", password |-> Hash("", ""), salt |-> "",
   failedLoginAttempts |-> 0, lockUntil |-> 0, update_time |-> 0, rev |-> 0,
   hasPerms |-> FALSE, permissions |-> <<>>]

\* lockUntil = 0 stands for null; rev counts the committed updateUser writes of
\* the row; hasPerms/permissions exist only in the snapshot login builds
NewRow(roles, tenant, status) ==
  [NoRow EXCEPT !.exists = TRUE, !.roles = roles, !.tenantId = tenant,
                !.status = status, !.password = Hash("Correct1!", "s"),
                !.salt = "s"]

\* the users holding the admin role
AdminSet(rows) == {u \in UserIds : rows[u].exists /\ ADMIN \in rows[u].roles}

(* ------------------- models/user.js instance methods ------------------ *)
user_isLocked(row, t) == row.lockUntil # 0 /\ t < row.lockUntil

user_updateLoginTime(row, t) ==
  [row EXCEPT !.update_time = t, !.failedLoginAttempts = 0, !.lockUntil = 0]

user_incrementFailedLogins(row, t) ==
  LET n == row.failedLoginAttempts + 1
  IN  [row EXCEPT !.failedLoginAttempts = n,
                  !.lockUntil = IF n >= FailThreshold THEN t + LockWindowMs ELSE @]

(* ------------------ models/sysUser.js instance methods ---------------- *)
sysUser_isLocked(row) == row.status = STATUS_FROZEN

sysUser_updateLoginTime(row, t) == [row EXCEPT !.update_time = t]

\* utils/database.js initModels binds sequelize.models.User to the sysUser model
BoundUserModel == "sysUser"

isLocked(row, t) ==
  IF BoundUserModel = "sysUser" THEN sysUser_isLocked(row) ELSE user_isLocked(row, t)

updateLoginTime(row, t) ==
  IF BoundUserModel = "sysUser" THEN sysUser_updateLoginTime(row, t)
  ELSE user_updateLoginTime(row, t)

(* ------------------------------ tokens -------------------------------- *)
\* kind "none": no bearer token; "jwt": a token signed by generateToken
NoToken == [kind |-> "none", sub |-> NoUser, roles |-> {}, tenantId |-> "t1",
            iat |-> 0, exp |-> 0]

\* "Bearer " followed by nothing, and a token jwt.verify cannot parse or
\* whose signature does not match
EmptyToken == [NoToken EXCEPT !.kind = "empty"]
BadToken == [NoToken EXCEPT !.kind = "bad"]

\* generateToken: jwt.sign(payload, secret, {expiresIn}); iat and exp are seconds
generateToken(id, inst, t) ==
  [kind |-> "jwt", sub |-> id, roles |-> inst.roles, tenantId |-> inst.tenantId,
   iat |-> t \div MsPerSecond, exp |-> (t \div MsPerSecond) + ExpiresInSec]

\* jwt.verify(token, secret) at clock t
jwtVerify(tok, t) ==
  IF tok.kind # "jwt" THEN "JsonWebTokenError"
  ELSE IF (t \div MsPerSecond) >= tok.exp THEN "TokenExpiredError"
  ELSE "ok"

\* getTokenExpiry: decoded.exp * 1000, or null (0)
getTokenExpiry(tok) ==
  IF tok.kind = "jwt" /\ tok.exp # 0 THEN tok.exp * MsPerSecond ELSE 0

\* constants/business CACHE_TTL.DAY, seconds
CACHE_TTL_DAY == 86400

\* logout: Math.floor((tokenExpiry - Date.now()) / 1000), or CACHE_TTL.DAY
expiryTime(tok, t) ==
  IF getTokenExpiry(tok) # 0 THEN (getTokenExpiry(tok) - t) \div MsPerSecond
  ELSE CACHE_TTL_DAY

(* ------------------------------ Redis --------------------------------- *)
\* a key with expiry is gone once the clock reaches its expiry instant
Live(e, t) == ~e.hasTtl \/ t < e.at

\* RedisClient.set(key, value, ttl) on a blacklist key: SETEX when ttl is
\* truthy (an expiry <= 0 is refused by Redis and the error swallowed),
\* SET without expiry when ttl is 0; nothing is written while disconnected
SetOk(ttl) == redisUp /\ ttl >= 0

SetBlacklist(tok, ttl, t) ==
  IF SetOk(ttl)
  THEN {e \in blacklist : e.tok # tok}
         \cup {[tok |-> tok, hasTtl |-> ttl # 0, at |-> t + ttl * MsPerSecond]}
  ELSE blacklist

\* Redis.client.get(`blacklist:${token}`)
IsBlacklisted(tok, t) == \E e \in blacklist : e.tok = tok /\ Live(e, t)

\* user:<id> keys.  enc is the type JSON.parse of the stored text yields:
\* getUserById stores the object (serialised once by set), login stores
\* JSON.stringify(object), which set serialises a second time
NoEntry == [present |-> FALSE, enc |-> "object", snap |-> NoRow]

\* sanitizeUser / attributes.exclude: the row without its password
Snapshot(row) == [row EXCEPT !.password = Hash("", "")]

\* RedisClient.get, set and del run the client call inside try/catch and
\* answer null or false: no error of the client reaches the service
redisThrows_NoCatch(up) == ~up
redisThrows(up) == FALSE

\* RedisClient.get(key): null while disconnected or when the key is absent
RedisGet(u) == IF redisUp THEN cache[u] ELSE NoEntry

\* RedisClient.set(key, value, ttl) with a positive ttl
RedisSet(u, enc, snap) ==
  IF redisUp THEN [cache EXCEPT ![u] = [present |-> TRUE, enc |-> enc, snap |-> snap]]
  ELSE cache

\* RedisClient.del(key)
RedisDel(u) == IF redisUp THEN [cache EXCEPT ![u] = NoEntry] ELSE cache

(* ----------------------------- requests ------------------------------- *)
\* JavaScript values of tenant ids: undefined, the empty string, the number 0
\* (written "#0") and non-empty strings; the first three are falsy
Undefined == "undefined"
Falsy == {Undefined, "", "#0"}
JsIds == Falsy \cup Tenants

\* a || b
Or(a, b) == IF a \notin Falsy THEN a ELSE b

NoBody ==
  [hasRoles |-> FALSE, roles |-> {}, hasTenant |-> FALSE, tenantId |-> "t1",
   hasStatus |-> FALSE, status |-> "", hasSalt |-> FALSE, salt |-> "",
   hasLoginTenant |-> FALSE, login_tenant_id |-> "t1"]

Idle ==
  [op |-> "idle", pc |-> "idle", tok |-> NoToken, user |-> NoToken,
   name |-> NoUser, pw |-> "", id |-> NoUser, body |-> NoBody,
   params |-> Undefined, query |-> Undefined,
   inst |-> NoRow, cur |-> NoEntry, tx |-> NoRow,
   gate |-> "", gateAt |-> 0, sawRevoked |-> FALSE, sawLoggedOut |-> FALSE,
   floor |-> 0,
   wrote |-> FALSE, protected |-> FALSE, locked |-> FALSE, cleared |-> FALSE,
   granted |-> FALSE, entitled |-> FALSE, listed |-> FALSE,
   miss |-> FALSE, written |-> FALSE, staleLeft |-> FALSE, outage |-> FALSE,
   required |-> [isArray |-> TRUE, value |-> "", items |-> <<>>],
   useRole |-> FALSE, useTenant |-> FALSE, ran |-> <<>>, errs |-> <<>>,
   roleOut |-> "", tenantOut |-> "",
   again |-> FALSE, kept |-> FALSE, cacheGone |-> FALSE,
   lockName |-> "", ttl |-> 0, reached |-> FALSE, rival |-> FALSE,
   newPassword |-> "", commitFailed |-> FALSE,
   connection |-> "",
   lockFree |-> FALSE, lockKept |-> FALSE, lockMade |-> FALSE,
   out |-> "", ret |-> "", res |-> NoEntry, issued |-> NoToken]

Free(s) == req[s].pc \in {"idle", "done"}

\* a finished request keeps what it was asked and what it answered; the
\* handler's locals are gone
Finished(r, out) ==
  [r EXCEPT !.pc = "done", !.out = out, !.user = NoToken,
            !.inst = NoRow, !.cur = NoEntry, !.tx = NoRow]

(* ---------------- middleware/auth/jwtAuth.js authenticate ------------- *)
authenticate(tok, t) ==
  IF tok.kind = "none" THEN "AUTH_TOKEN_MISSING"
  ELSE IF tok.kind = "empty" THEN "AUTH_INVALID_TOKEN_FORMAT"
  ELSE IF jwtVerify(tok, t) = "TokenExpiredError" THEN "AUTH_TOKEN_EXPIRED"
  ELSE IF jwtVerify(tok, t) = "JsonWebTokenError" THEN "AUTH_INVALID_TOKEN"
  ELSE IF ~redisUp THEN "AUTH_SYSTEM_ERROR"
  ELSE IF IsBlacklisted(tok, t) THEN "AUTH_TOKEN_REVOKED"
  ELSE "ok"

\* hasRole(roles): the identity carries one of the required roles
hasRole_AllRequired(required, user) == \A r \in required : r \in user.roles
hasRole(required, user) == \E r \in required : r \in user.roles

\* the argument of hasRole is one role or an array of roles:
\* requiredRoles = Array.isArray(roles) ? roles : [roles]
OneRole(r) == [isArray |-> FALSE, value |-> r, items |-> <<>>]
RoleList(rs) == [isArray |-> TRUE, value |-> "", items |-> rs]
requiredRoles(roles) == IF roles.isArray THEN roles.items ELSE <<roles.value>>

\* the middleware hasRole(roles) on req.user: "next" or the code of the
\* error handed to next
hasRoleMiddleware(roles, user) ==
  LET list == requiredRoles(roles)
  IN  IF user.kind = "none" THEN "AUTH_REQUIRED"
      ELSE IF hasRole({list[i] : i \in 1..Len(list)}, user) THEN "next"
      ELSE "AUTH_INSUFFICIENT_PERMISSIONS"

\* instance.save(): UPDATE of the attributes changed on the instance since
\* it was loaded; no row is touched when the row is gone
Save(cur, loaded, changed) ==
  IF cur.exists
  THEN [f \in DOMAIN cur |-> IF changed[f] # loaded[f] THEN changed[f] ELSE cur[f]]
  ELSE cur

(* ---------------- utils/redis.js RedisClient singleton --------------- *)
\* constructor: this.maxRetries = 5
maxRetries == 5

\* the object after the constructor; timers counts the setTimeout callbacks
\* of retryConnection that have not run yet
NewRedisClient ==
  [client |-> "null", isConnected |-> FALSE, retryCount |-> 0, timers |-> 0]

\* retryConnection(): nothing once retryCount has reached maxRetries, else
\* one more retry counted and one connect() scheduled after retryDelay
retryConnection_NoLimit(c) ==
  [c EXCEPT !.retryCount = @ + 1, !.timers = @ + 1]
retryConnection(c) ==
  IF c.retryCount >= maxRetries THEN c
  ELSE [c EXCEPT !.retryCount = @ + 1, !.timers = @ + 1]

\* connect(): the client in use when there is one and it is connected, else
\* a new client with the two listeners; when the constructor of the client
\* throws, the catch calls retryConnection and rethrows
connect(c, threw) ==
  IF c.client # "null" /\ c.isConnected THEN c
  ELSE IF threw THEN retryConnection(c)
  ELSE [c EXCEPT !.client = "instance"]

(* ------------------- utils/redis.js lock:<name> keys ------------------ *)
\* names of locks (the key is CACHE_PREFIXES.LOCK + lockName)
LockNames == {"reconnect"}
\* no key lock:<name>
NoLock == [held |-> FALSE, hasTtl |-> FALSE, at |-> 0, value |-> 0]
\* what a worker knows of its own lock: the name it acquired and the instant
\* its expiry runs out
NoHold == [held |-> FALSE, name |-> "", until |-> 0]
\* the key lock:<name> exists at time t
LockHeld(entry, t) == entry.held /\ Live(entry, t)

(* ------------------------------ clock --------------------------------- *)
Tick ==
  /\ now < MaxTicks * TickMs
  /\ now' = now + TickMs
  /\ blacklist' = {e \in blacklist : Live(e, now + TickMs)}
  /\ locks' = [n \in LockNames |->
                 IF Live(locks[n], now + TickMs) THEN locks[n] ELSE NoLock]
  /\ UNCHANGED <<store, cache, redisUp, tokens, req, hist, connections, redisClient>>

\* the TTL of a user:<id> key (CACHE_TTL.MEDIUM or LONG, minutes) elapses; a
\* step of the specifications whose clock stands still
CacheExpire(u) ==
  /\ cache[u].present
  /\ cache' = [cache EXCEPT ![u] = NoEntry]
  /\ UNCHANGED <<now, store, blacklist, redisUp, tokens, req, hist, locks, connections, redisClient>>

\* the connection to Redis is lost ('error' event: isConnected = false) and
\* comes back ('connect' event); the keys live in the server and survive
RedisDown ==
  /\ redisUp
  /\ redisUp' = FALSE
  /\ UNCHANGED <<now, store, cache, blacklist, tokens, req, hist, locks, connections, redisClient>>

RedisUp ==
  /\ ~redisUp
  /\ redisUp' = TRUE
  /\ UNCHANGED <<now, store, cache, blacklist, tokens, req, hist, locks, connections, redisClient>>

(* ------- utils/database.js getConnection, service getUserModel -------- *)
\* connections[type] is filled by the first call that needs the database:
\* "none" before that, "connected" after; while the database is
\* "unreachable" sequelize.authenticate() rejects, nothing is cached, and
\* getUserModel rejects with the error of the driver
getUserModelThrows == connections = "unreachable"
getConnection == IF getUserModelThrows THEN connections ELSE "connected"
\* the name of the error sequelize.authenticate() rejects with; it is not an
\* ApiError and carries no code
ConnectionError == "SequelizeConnectionError"

\* the database becomes unreachable, and reachable again, before the first
\* connection is made
DbDown ==
  /\ connections = "none"
  /\ connections' = "unreachable"
  /\ UNCHANGED <<now, store, cache, blacklist, redisUp, tokens, req, hist, locks, redisClient>>

DbUp ==
  /\ connections = "unreachable"
  /\ connections' = "none"
  /\ UNCHANGED <<now, store, cache, blacklist, redisUp, tokens, req, hist, locks, redisClient>>

(* -------------------- SysUserService.changePassword ------------------- *)
StartChangePassword(s, id, currentPassword, newPassword) ==
  /\ req[s].pc = "idle"
  /\ req' = [req EXCEPT ![s] =
               [Idle EXCEPT !.op = "changePassword", !.pc = "cpfind", !.id = id,
                            !.pw = currentPassword, !.newPassword = newPassword]]
  /\ UNCHANGED <<now, store, cache, blacklist, redisUp, tokens, hist, locks, connections, redisClient>>

\* getUserModel (before the try), sequelize.transaction() and
\* User.findByPk(id, {transaction}); the ApiError
\* thrown in the callback rolls the transaction back and is passed on
CpFind(s) ==
  /\ req[s].pc = "cpfind"
  /\ LET row == IF req[s].id \in UserIds THEN store[req[s].id] ELSE NoRow
     IN  req' = IF getUserModelThrows
                THEN [req EXCEPT ![s] = Finished(@, ConnectionError)]
                ELSE IF row.exists
                THEN [req EXCEPT ![s].inst = row, ![s].pc = "cpcheck"]
                ELSE [req EXCEPT ![s] = Finished(@, "USER_NOT_FOUND")]
  /\ connections' = getConnection
  /\ UNCHANGED <<now, store, cache, blacklist, redisUp, tokens, hist, locks, redisClient>>

\* validatePassword(currentPassword), then currentPassword === newPassword
changePasswordVerdict(row, currentPassword, newPassword) ==
  IF ~validatePassword(row, currentPassword) THEN "AUTH_INVALID_CURRENT_PASSWORD"
  ELSE IF currentPassword = newPassword THEN "AUTH_SAME_PASSWORD"
  ELSE "ok"

CpCheck(s) ==
  /\ req[s].pc = "cpcheck"
  /\ LET r == req[s]
         v == changePasswordVerdict(r.inst, r.pw, r.newPassword)
     IN  req' = IF v = "ok" THEN [req EXCEPT ![s].pc = "cpsave"]
                ELSE [req EXCEPT ![s] = Finished(r, v)]
  /\ UNCHANGED <<now, store, cache, blacklist, redisUp, tokens, hist, locks, connections, redisClient>>

\* hooks.beforeSave of the sysUser model, for an instance whose password was
\* assigned (changed('password')): a salt is drawn only when the row has
\* none, and the password is hashed with the salt of the row
GeneratedSalt == "s1"
beforeSave_FreshSalt(row, password) ==
  [row EXCEPT !.salt = GeneratedSalt, !.password = Hash(password, GeneratedSalt)]
beforeSave(row, password) ==
  IF password = "" THEN [row EXCEPT !.password = Hash("", "")]
  ELSE LET salt == IF row.salt = "" THEN GeneratedSalt ELSE row.salt
       IN  [row EXCEPT !.salt = salt, !.password = Hash(password, salt)]

\* user.resetPassword(newPassword): this.password = newPassword (hashed by
\* the beforeSave hook with the row's salt), this.update_time = new Date(),
\* this.save()
user_resetPassword(row, newPassword, t) ==
  [beforeSave(row, newPassword) EXCEPT !.update_time = t]

\* the save() of user.resetPassword carries no transaction option and no
\* CLS namespace is set: the UPDATE runs on a connection of its own and is
\* committed at once
saveOutsideTransaction == TRUE

CpSave(s) ==
  /\ req[s].pc = "cpsave"
  /\ LET r == req[s]
         changed == user_resetPassword(r.inst, r.newPassword, now)
     IN  /\ store' = IF saveOutsideTransaction
                     THEN [store EXCEPT ![r.id] = Save(@, r.inst, changed)]
                     ELSE store
         /\ req' = [req EXCEPT ![s].tx = changed, ![s].pc = "cpcommit"]
  /\ UNCHANGED <<now, cache, blacklist, redisUp, tokens, hist, locks, connections, redisClient>>

\* tx.commit(); when it rejects (the database is unreachable) the catch of
\* database.transaction calls tx.rollback() and rethrows, and changePassword
\* wraps the error as USER_PASSWORD_CHANGE_FAILED
CpCommit(s, storeUp) ==
  /\ req[s].pc = "cpcommit"
  /\ LET r == req[s]
     IN  /\ store' = IF storeUp /\ ~saveOutsideTransaction
                     THEN [store EXCEPT ![r.id] = Save(@, r.inst, r.tx)]
                     ELSE store
         /\ req' = [req EXCEPT ![s] =
                      [Finished(r, IF storeUp THEN "ok"
                                   ELSE "USER_PASSWORD_CHANGE_FAILED")
                         EXCEPT !.ret = IF storeUp THEN "true" ELSE "",
                                !.commitFailed = ~storeUp]]
  /\ UNCHANGED <<now, cache, blacklist, redisUp, tokens, hist, locks, connections, redisClient>>

(* -------------- utils/redis.js acquireLock / releaseLock -------------- *)
\* expiry arguments a caller passes to acquireLock (the default is 30)
LockTtls == 0 .. MaxTtl

\* ensureConnection() or the command rejects: no connection, or an expiry
\* that Redis refuses (EX takes a positive integer)
lockCommandFails(ttl) == ~redisUp \/ ttl < 1

\* the reply of client.set(lockKey, Date.now(), 'EX', ttl, 'NX')
setNX_Overwrite(entry, t) == "OK"
setNX(entry, t) == IF LockHeld(entry, t) THEN "nil" ELSE "OK"

\* the key that SET writes on the reply OK
lockEntry_NoExpiry(ttl, t) ==
  [held |-> TRUE, hasTtl |-> FALSE, at |-> 0, value |-> t]
lockEntry(ttl, t) ==
  [held |-> TRUE, hasTtl |-> TRUE, at |-> t + ttl * MsPerSecond, value |-> t]

\* a worker calls acquireLock(lockName, ttl)
StartAcquire(s, name, ttl) ==
  /\ Free(s)
  /\ now + ttl * MsPerSecond <= MaxTicks * TickMs
  /\ req' = [req EXCEPT ![s] =
               [Idle EXCEPT !.op = "acquireLock", !.pc = "set",
                            !.lockName = name, !.ttl = ttl]]
  /\ UNCHANGED <<now, store, cache, blacklist, redisUp, tokens, hist, locks, connections, redisClient>>

\* the SET ... EX ttl NX reaches Redis, or the call fails and the catch
\* returns false; return result === 'OK'
AcquireSet(s) ==
  LET r == req[s]
      entry == locks[r.lockName]
      fails == lockCommandFails(r.ttl)
      reply == IF fails THEN "error" ELSE setNX(entry, now)
      after == IF reply = "OK" THEN lockEntry(r.ttl, now) ELSE entry
  IN  /\ r.op = "acquireLock" /\ r.pc = "set"
      /\ now + r.ttl * MsPerSecond <= MaxTicks * TickMs
      /\ locks' = [locks EXCEPT ![r.lockName] = after]
      /\ req' = [req EXCEPT ![s] =
                   [Finished(r, "") EXCEPT
                      !.ret = IF reply = "OK" THEN "true" ELSE "false",
                      !.reached = ~fails,
                      !.rival = \E o \in Slots \ {s} :
                                   /\ req[o].op = "acquireLock"
                                   /\ req[o].pc = "set"
                                   /\ req[o].lockName = r.lockName,
                      !.lockFree = ~LockHeld(entry, now),
                      !.lockKept = (after = entry),
                      !.lockMade = /\ LockHeld(after, now)
                                   /\ after.hasTtl
                                   /\ after.at = now + r.ttl * MsPerSecond]]
      /\ hist' = IF reply = "OK" /\ hist.counting
                 THEN [hist EXCEPT !.holds[s] =
                         [held |-> TRUE, name |-> r.lockName, until |-> after.at]]
                 ELSE hist
      /\ UNCHANGED <<now, store, cache, blacklist, redisUp, tokens, connections, redisClient>>

\* a worker calls releaseLock(lockName)
StartRelease(s, name) ==
  /\ Free(s)
  /\ req' = [req EXCEPT ![s] =
               [Idle EXCEPT !.op = "releaseLock", !.pc = "del",
                            !.lockName = name]]
  /\ hist' = [hist EXCEPT !.holds[s] = NoHold]
  /\ UNCHANGED <<now, store, cache, blacklist, redisUp, tokens, locks, connections, redisClient>>

\* client.del(lockKey), whoever set the key; false when the call fails
ReleaseDel(s) ==
  LET r == req[s]
  IN  /\ r.op = "releaseLock" /\ r.pc = "del"
      /\ locks' = IF redisUp THEN [locks EXCEPT ![r.lockName] = NoLock]
                  ELSE locks
      /\ req' = [req EXCEPT ![s] =
                   [Finished(r, "") EXCEPT
                      !.ret = IF redisUp THEN "true" ELSE "false",
                      !.reached = redisUp]]
      /\ UNCHANGED <<now, store, cache, blacklist, redisUp, tokens, hist, connections, redisClient>>

(* ----------------------- SysUserService.login ------------------------- *)
StartLogin(s, name, pw) ==
  /\ Free(s)
  /\ hist.counting => hist.calls < MaxCalls
  /\ req' = [req EXCEPT ![s] = [Idle EXCEPT !.op = "login", !.pc = "find",
                                           !.name = name, !.pw = pw]]
  /\ hist' = IF hist.counting THEN [hist EXCEPT !.calls = @ + 1] ELSE hist
  /\ UNCHANGED <<now, store, cache, blacklist, redisUp, tokens, locks, connections, redisClient>>

\* the instance login loads.  Under the sysUser model `roles` is the
\* included Role association: rows of sys_role, none of them equal to a role
\* code; the model defines no tenantId attribute, so user.tenantId is
\* undefined.  Under models/user.js both are columns of the row
RoleInstance ==
  [r \in Roles |->
     CASE r = ADMIN -> "Role{admin}"
       [] r = MANAGER -> "Role{manager}"
       [] OTHER -> "Role{user}"]

loadedRoles(row) ==
  IF BoundUserModel = "sysUser" THEN {RoleInstance[r] : r \in row.roles}
  ELSE row.roles

loadedTenantId(row) ==
  IF BoundUserModel = "sysUser" THEN Undefined ELSE row.tenantId

\* User.findOne({where: {username or email, del_flag: 0}, include: roles})
findOne(name) ==
  IF name \in UserIds /\ store[name].exists /\ store[name].del_flag = 0
  THEN [store[name] EXCEPT !.roles = loadedRoles(store[name]),
                           !.tenantId = loadedTenantId(store[name])]
  ELSE NoRow

\* getUserModel (before the try of login), then User.findOne
LoginFind(s) ==
  /\ req[s].op = "login" /\ req[s].pc = "find"
  /\ req' = IF getUserModelThrows
            THEN [req EXCEPT ![s] = Finished(@, ConnectionError)]
            ELSE [req EXCEPT ![s].inst = findOne(req[s].name), ![s].pc = "check"]
  /\ connections' = getConnection
  /\ UNCHANGED <<now, store, cache, blacklist, redisUp, tokens, hist, locks, redisClient>>

\* the checks of login on the loaded instance, in the order of the code
loginVerdict_NoStatusCheck(user, pw, t) ==
  IF ~user.exists THEN "AUTH_INVALID_CREDENTIALS"
  ELSE IF ~validatePassword(user, pw) THEN "AUTH_INVALID_CREDENTIALS"
  ELSE "ok"

loginVerdict(user, pw, t) ==
  IF ~user.exists THEN "AUTH_INVALID_CREDENTIALS"
  ELSE IF user.status # STATUS_NORMAL THEN "AUTH_ACCOUNT_INACTIVE"
  ELSE IF isLocked(user, t) THEN "AUTH_ACCOUNT_LOCKED"
  ELSE IF ~validatePassword(user, pw) THEN "AUTH_INVALID_CREDENTIALS"
  ELSE "ok"

\* the Permission include of login: where del_flag = 0 and status = '1'
includedPermissions_NoFilter(r) == RolePermissions[r]

includedPermissions(r) ==
  SelectSeq(RolePermissions[r],
            LAMBDA p : PermissionRows[p].del_flag = 0 /\ PermissionRows[p].status = "1")

\* user.roles of the loaded instance, in the order of the role codes
RoleOrder == <<ADMIN, MANAGER, USER>>
rolesOf(user) ==
  SelectSeq(RoleOrder, LAMBDA r : RoleInstance[r] \in user.roles \/ r \in user.roles)

includes(list, x) == \E i \in 1..Len(list) : list[i] = x

\* if (perm.perms && !perms.includes(perm.perms)) perms.push(perm.perms)
pushPerm(perms, p) ==
  IF PermissionRows[p].perms # "" /\ ~includes(perms, PermissionRows[p].perms)
  THEN Append(perms, PermissionRows[p].perms)
  ELSE perms

RECURSIVE forPerms(_, _)
forPerms(perms, ps) ==
  IF ps = <<>> THEN perms ELSE forPerms(pushPerm(perms, Head(ps)), Tail(ps))

RECURSIVE forRoles(_, _)
forRoles(perms, rs) ==
  IF rs = <<>> THEN perms
  ELSE forRoles(forPerms(perms, includedPermissions(Head(rs))), Tail(rs))

\* the permission codes login collects from the loaded roles
permsOf(user) == forRoles(<<>>, rolesOf(user))

LoginCheck(s) ==
  /\ req[s].op = "login" /\ req[s].pc = "check"
  /\ LET user == req[s].inst
         u == req[s].name
         v == loginVerdict(user, req[s].pw, now)
         saved == updateLoginTime(user, now)
         token == generateToken(u, saved, now)
         userCache == [Snapshot(saved) EXCEPT !.hasPerms = TRUE,
                                              !.permissions = permsOf(saved)]
         wrongPw == user.exists /\ user.status = STATUS_NORMAL
                    /\ ~isLocked(user, now) /\ v # "ok"
     IN  IF v = "ok"
         THEN /\ store' = [store EXCEPT ![u] = Save(@, user, saved)]
              /\ tokens' = IF redisThrows(redisUp) THEN tokens ELSE tokens \cup {token}
              /\ cache' = RedisSet(u, "string", userCache)
              /\ req' = [req EXCEPT ![s] =
                           [Finished(@, IF redisThrows(redisUp)
                                        THEN "AUTH_LOGIN_FAILED" ELSE "ok") EXCEPT
                              !.issued = IF redisThrows(redisUp) THEN NoToken ELSE token,
                              !.res = IF redisThrows(redisUp) THEN NoEntry
                                      ELSE [present |-> TRUE, enc |-> "object",
                                            snap |-> userCache],
                              !.outage = ~redisUp,
                              !.locked = user_isLocked(user, now),
                              !.cleared = /\ Save(store[u], user, saved).failedLoginAttempts = 0
                                          /\ Save(store[u], user, saved).lockUntil = 0]]
              /\ hist' = IF hist.counting THEN [hist EXCEPT !.okLogins[u] = @ + 1]
                         ELSE hist
         ELSE /\ req' = [req EXCEPT ![s] =
                           [Finished(@, v) EXCEPT
                              !.locked = user.exists /\ user_isLocked(user, now)]]
              /\ hist' = IF hist.counting /\ wrongPw
                         THEN [hist EXCEPT !.wrong[u] = @ + 1] ELSE hist
              /\ UNCHANGED <<store, tokens, cache, redisClient>>
  /\ UNCHANGED <<now, blacklist, redisUp, locks, connections, redisClient>>

(* --------------------- SysUserService.getUserById --------------------- *)
\* where a route goes on after getUserById returned
AfterGet(op) == IF op \in {"put", "delete"} THEN "guard" ELSE "done"

\* getUserById returned e to the route: GET /me answers with it, PUT and
\* DELETE keep it as the user to check
Returned(r, e) ==
  IF AfterGet(r.op) = "done" THEN [Finished(r, "ok") EXCEPT !.res = e]
  ELSE [r EXCEPT !.cur = e, !.pc = "guard"]

GetCache(s) ==
  /\ req[s].pc = "cget"
  /\ LET e == RedisGet(req[s].id)
         fl == IF req[s].id \in UserIds THEN hist.returned[req[s].id] ELSE 0
         r == [req[s] EXCEPT !.floor = fl, !.miss = ~e.present,
                             !.outage = @ \/ ~redisUp]
     IN  req' = IF redisThrows(redisUp)
                THEN [req EXCEPT ![s] = Finished(r, "USER_DETAILS_FAILED")]
                ELSE IF e.present
                THEN [req EXCEPT ![s] = Returned(r, e)]
                ELSE [req EXCEPT ![s] = [r EXCEPT !.pc = "dbread"]]
  /\ UNCHANGED <<now, store, cache, blacklist, redisUp, tokens, hist, locks, connections, redisClient>>

\* getUserModel (inside the try of getUserById), then User.findByPk(id)
GetRead(s) ==
  /\ req[s].pc = "dbread"
  /\ LET row == IF req[s].id \in UserIds THEN store[req[s].id] ELSE NoRow
     IN  req' = IF getUserModelThrows
                THEN [req EXCEPT ![s] = Finished(@, "USER_DETAILS_FAILED")]
                ELSE IF row.exists
                THEN [req EXCEPT ![s].inst = row, ![s].pc = "cset"]
                ELSE [req EXCEPT ![s] = Finished(@, "USER_NOT_FOUND")]
  /\ connections' = getConnection
  /\ UNCHANGED <<now, store, cache, blacklist, redisUp, tokens, hist, locks, redisClient>>

GetSet(s) ==
  /\ req[s].pc = "cset"
  /\ LET e == [present |-> TRUE, enc |-> "object", snap |-> Snapshot(req[s].inst)]
         r == [req[s] EXCEPT !.outage = @ \/ ~redisUp,
                             !.written = RedisSet(req[s].id, "object", e.snap)[req[s].id] = e]
     IN  IF redisThrows(redisUp)
         THEN /\ cache' = cache
              /\ req' = [req EXCEPT ![s] = Finished(r, "USER_DETAILS_FAILED")]
         ELSE /\ cache' = RedisSet(req[s].id, "object", e.snap)
              /\ req' = [req EXCEPT ![s] = Returned(r, e)]
  /\ UNCHANGED <<now, store, blacklist, redisUp, tokens, hist, locks, connections, redisClient>>

(* ------------------- routes/api/auth.js GET /me ----------------------- *)
StartMe(s, tok) ==
  /\ Free(s)
  /\ req' = [req EXCEPT ![s] = [Idle EXCEPT !.op = "me", !.pc = "gate", !.tok = tok,
                                           !.id = tok.sub]]
  /\ UNCHANGED <<now, store, cache, blacklist, redisUp, tokens, hist, locks, connections, redisClient>>

(* ------ routes/api/auth.js POST /logout, SysUserService.logout -------- *)
StartLogout(s, tok) ==
  /\ Free(s)
  /\ req' = [req EXCEPT ![s] = [Idle EXCEPT !.op = "logout", !.pc = "gate",
                                           !.tok = tok, !.id = tok.sub]]
  /\ UNCHANGED <<now, store, cache, blacklist, redisUp, tokens, hist, locks, connections, redisClient>>

\* the blacklist entry: redisClient.set(`blacklist:${token}`, 'true', expiryTime)
LogoutRevoke(s) ==
  /\ req[s].op = "logout" /\ req[s].pc = "revoke"
  /\ LET ttl == expiryTime(req[s].tok, now)
     IN  /\ blacklist' = SetBlacklist(req[s].tok, ttl, now)
         /\ hist' = IF SetOk(ttl) THEN [hist EXCEPT !.revoked = @ \cup {req[s].tok}]
                    ELSE hist
  /\ req' = [req EXCEPT
       ![s].pc = "save",
       ![s].again = \/ \E e \in blacklist : e.tok = req[s].tok
                    \/ jwtVerify(req[s].tok, now) = "TokenExpiredError",
       ![s].kept = (\E e \in blacklist : e.tok = req[s].tok)
                     => \E e \in SetBlacklist(req[s].tok, expiryTime(req[s].tok, now), now) :
                          e.tok = req[s].tok]
  /\ UNCHANGED <<now, store, cache, redisUp, tokens, locks, connections, redisClient>>

\* findByPk, update_time = new Date(), save; then redisClient.delete, which
\* RedisClient does not define: the TypeError is caught, logout returns false
\* and the route answers success
LogoutSave(s) ==
  /\ req[s].op = "logout" /\ req[s].pc = "save"
  /\ LET u == req[s].user.sub
     IN  store' = IF u \in UserIds
                  THEN [store EXCEPT ![u] = Save(@, @, [@ EXCEPT !.update_time = now])]
                  ELSE store
  /\ req' = [req EXCEPT ![s] =
               [Finished(@, "ok") EXCEPT
                  !.ret = "false",
                  !.cacheGone = req[s].user.sub \in UserIds
                                  => ~cache[req[s].user.sub].present]]
  /\ hist' = [hist EXCEPT !.loggedOut = @ \cup {req[s].tok}]
  /\ UNCHANGED <<now, cache, blacklist, redisUp, tokens, locks, connections, redisClient>>

(* --------------- middleware/auth/jwtAuth.js tenantAccess -------------- *)
\* req.body[paramName]
bodyTenant(body) == IF body.hasTenant THEN body.tenantId ELSE Undefined

tenantAccess_NoPresenceCheck(user, params, body, query) ==
  IF user.kind = "none" THEN "AUTH_REQUIRED"
  ELSE IF ADMIN \in user.roles THEN "next"
  ELSE IF Or(Or(params, bodyTenant(body)), query) # user.tenantId
       THEN "AUTH_TENANT_ACCESS_DENIED"
  ELSE "next"

\* tenantAccess('tenantId') on req.user, req.params, req.body, req.query:
\* "next" or the code of the error handed to next
tenantAccess(user, params, body, query) ==
  LET requestedTenantId == Or(Or(params, bodyTenant(body)), query)
  IN  IF user.kind = "none" THEN "AUTH_REQUIRED"
      ELSE IF ADMIN \in user.roles THEN "next"
      ELSE IF requestedTenantId \in Falsy \/ requestedTenantId # user.tenantId
           THEN "AUTH_TENANT_ACCESS_DENIED"
      ELSE "next"

\* a request through tenantAccess() to a handler, one per slot
StartTenant(s, user, params, body, query) ==
  /\ req[s].pc = "idle"
  /\ req' = [req EXCEPT ![s] = [Idle EXCEPT !.op = "tenant", !.pc = "tenant",
                                           !.user = user, !.params = params,
                                           !.body = body, !.query = query]]
  /\ UNCHANGED <<now, store, cache, blacklist, redisUp, tokens, hist, locks, connections, redisClient>>

TenantCheck(s) ==
  /\ req[s].pc = "tenant"
  /\ LET r == req[s]
         v == tenantAccess(r.user, r.params, r.body, r.query)
     IN  req' = IF v = "next"
                THEN [req EXCEPT ![s].pc = "handler", ![s].gate = v]
                ELSE [req EXCEPT ![s].pc = "done", ![s].gate = v, ![s].out = v]
  /\ UNCHANGED <<now, store, cache, blacklist, redisUp, tokens, hist, locks, connections, redisClient>>

\* the route handler behind the middleware
TenantHandler(s) ==
  /\ req[s].op = "tenant" /\ req[s].pc = "handler"
  /\ req' = [req EXCEPT ![s].pc = "done", ![s].out = "ok", ![s].ret = "handled"]
  /\ UNCHANGED <<now, store, cache, blacklist, redisUp, tokens, hist, locks, connections, redisClient>>

(* ---- a route: authenticate, then hasRole, then tenantAccess, handler -- *)
\* router.<method>(path, authenticate [, hasRole(roles)] [, tenantAccess()],
\* handler): express calls the next function of the list when the one before
\* calls next(), and its error handler when next(error) is called
AfterAuthenticate(r) ==
  IF r.useRole THEN "hasRole" ELSE IF r.useTenant THEN "tenantAccess" ELSE "handler"

AfterHasRole(r) == IF r.useTenant THEN "tenantAccess" ELSE "handler"

StartPipe(s, tok, roles, useRole, useTenant, params) ==
  /\ req[s].pc = "idle"
  /\ req' = [req EXCEPT ![s] = [Idle EXCEPT !.op = "pipe", !.pc = "authenticate",
                                           !.tok = tok, !.required = roles,
                                           !.useRole = useRole,
                                           !.useTenant = useTenant,
                                           !.params = params]]
  /\ UNCHANGED <<now, store, cache, blacklist, redisUp, tokens, hist, locks, connections, redisClient>>

\* a middleware answered v: next() runs the following function, next(error)
\* ends the request with the error
Passed_NoShortCircuit(r, stage, v, following) ==
  IF v = "next"
  THEN [r EXCEPT !.ran = Append(@, stage), !.pc = following]
  ELSE [r EXCEPT !.ran = Append(@, stage), !.errs = Append(@, v),
                 !.pc = following, !.out = v]

Passed(r, stage, v, following) ==
  IF v = "next"
  THEN [r EXCEPT !.ran = Append(@, stage), !.pc = following]
  ELSE [r EXCEPT !.ran = Append(@, stage), !.errs = Append(@, v),
                 !.pc = "done", !.out = v]

PipeAuthenticate(s) ==
  /\ req[s].op = "pipe" /\ req[s].pc = "authenticate"
  /\ LET r == req[s]
         g == authenticate(r.tok, now)
         seen == [r EXCEPT !.gate = g, !.gateAt = now,
                           !.listed = \E b \in blacklist : b.tok = r.tok,
                           !.user = IF g = "ok" THEN r.tok ELSE NoToken]
     IN  req' = [req EXCEPT ![s] =
                   Passed(seen, "authenticate", IF g = "ok" THEN "next" ELSE g,
                          AfterAuthenticate(r))]
  /\ UNCHANGED <<now, store, cache, blacklist, redisUp, tokens, hist, locks, connections, redisClient>>

PipeHasRole(s) ==
  /\ req[s].op = "pipe" /\ req[s].pc = "hasRole"
  /\ LET r == req[s]
         v == hasRoleMiddleware(r.required, r.user)
     IN  req' = [req EXCEPT ![s] =
                   Passed([r EXCEPT !.roleOut = v], "hasRole", v, AfterHasRole(r))]
  /\ UNCHANGED <<now, store, cache, blacklist, redisUp, tokens, hist, locks, connections, redisClient>>

PipeTenant(s) ==
  /\ req[s].op = "pipe" /\ req[s].pc = "tenantAccess"
  /\ LET r == req[s]
         v == tenantAccess(r.user, r.params, r.body, r.query)
     IN  req' = [req EXCEPT ![s] =
                   Passed([r EXCEPT !.tenantOut = v], "tenantAccess", v, "handler")]
  /\ UNCHANGED <<now, store, cache, blacklist, redisUp, tokens, hist, locks, connections, redisClient>>

PipeHandler(s) ==
  /\ req[s].op = "pipe" /\ req[s].pc = "handler"
  /\ req' = [req EXCEPT ![s].ran = Append(@, "handler"), ![s].pc = "done",
                        ![s].out = "ok", ![s].ret = "handled"]
  /\ UNCHANGED <<now, store, cache, blacklist, redisUp, tokens, hist, locks, connections, redisClient>>

(* ------------------------ routes/api/users.js ------------------------- *)
\* request bodies: the fields of req.body the routes and the service read
RoleBody(roles) == [NoBody EXCEPT !.hasRoles = TRUE, !.roles = roles]
StatusBody(status) == [NoBody EXCEPT !.hasStatus = TRUE, !.status = status]
SaltBody(salt) == [NoBody EXCEPT !.hasSalt = TRUE, !.salt = salt]
\* a body naming the tenant column of sys_user (models/sysUser.js:147)
LoginTenantBody(tenant) ==
  [NoBody EXCEPT !.hasLoginTenant = TRUE, !.login_tenant_id = tenant]
Bodies == {RoleBody({ADMIN}), RoleBody({USER}), NoBody}

\* POST /: a caller without the admin role creates in its own tenant and may
\* not create an administrator
postGuard(user, body) ==
  IF ADMIN \notin user.roles /\ body.hasRoles /\ ADMIN \in body.roles
  THEN "AUTH_INSUFFICIENT_PERMISSIONS" ELSE "ok"

postBody(user, body) ==
  IF ADMIN \notin user.roles
  THEN [body EXCEPT !.hasTenant = TRUE, !.tenantId = user.tenantId] ELSE body

\* what the route reads from the value getUserById returned: an object from
\* the store or from the entry getUserById cached; the entry login cached
\* parses to a string, whose tenantId and roles are undefined
tenantOf(cur) == IF cur.enc = "object" THEN cur.snap.tenantId ELSE Undefined

\* PUT /:id permission check: the reason of the refusal, or "ok"
putGuard(user, id, cur, body) ==
  IF user.sub = id THEN "ok"
  ELSE IF ADMIN \in user.roles THEN "ok"
  ELSE IF MANAGER \in user.roles
       THEN IF user.tenantId # tenantOf(cur) THEN "tenant"
            ELSE IF cur.enc # "object" THEN "TypeError"
            ELSE IF MANAGER \in cur.snap.roles \/ ADMIN \in cur.snap.roles THEN "role"
            ELSE IF body.hasRoles /\ ADMIN \in body.roles THEN "promote"
            ELSE "ok"
  ELSE "other"

putBody(user, id, body) ==
  IF user.sub = id
  THEN [body EXCEPT !.hasRoles = FALSE, !.roles = NoBody.roles,
                    !.hasStatus = FALSE, !.status = NoBody.status,
                    !.hasTenant = FALSE, !.tenantId = NoBody.tenantId]
  ELSE IF ADMIN \in user.roles THEN body
  ELSE [body EXCEPT !.hasTenant = TRUE, !.tenantId = user.tenantId]

\* DELETE /:id checks
deleteGuard(user, id, cur) ==
  IF user.sub = id THEN "self"
  ELSE IF ADMIN \in user.roles THEN "ok"
  ELSE IF MANAGER \in user.roles
       THEN IF user.tenantId # tenantOf(cur) THEN "tenant"
            ELSE IF cur.enc # "object" THEN "TypeError"
            ELSE IF MANAGER \in cur.snap.roles \/ ADMIN \in cur.snap.roles THEN "role"
            ELSE "ok"
  ELSE "ok"

\* the answer of a route for a refusal reason
Answer(reason) ==
  CASE reason = "self" -> "VALIDATION_ERROR"
    [] reason = "TypeError" -> "INTERNAL_ERROR"
    [] OTHER -> "AUTH_INSUFFICIENT_PERMISSIONS"

StartPut(s, tok, id, body) ==
  /\ Free(s)
  /\ hist.writes < MaxWrites
  /\ req' = [req EXCEPT ![s] = [Idle EXCEPT !.op = "put", !.pc = "gate", !.tok = tok,
                                           !.id = id, !.body = body]]
  /\ hist' = [hist EXCEPT !.writes = @ + 1]
  /\ UNCHANGED <<now, store, cache, blacklist, redisUp, tokens, locks, connections, redisClient>>

StartDelete(s, tok, id) ==
  /\ Free(s)
  /\ hist.writes < MaxWrites
  /\ req' = [req EXCEPT ![s] = [Idle EXCEPT !.op = "delete", !.pc = "gate",
                                           !.tok = tok, !.id = id]]
  /\ hist' = [hist EXCEPT !.writes = @ + 1]
  /\ UNCHANGED <<now, store, cache, blacklist, redisUp, tokens, locks, connections, redisClient>>

StartPost(s, tok, name, body) ==
  /\ Free(s)
  /\ hist.writes < MaxWrites
  /\ req' = [req EXCEPT ![s] = [Idle EXCEPT !.op = "post", !.pc = "gate", !.tok = tok,
                                           !.name = name, !.body = body]]
  /\ hist' = [hist EXCEPT !.writes = @ + 1]
  /\ UNCHANGED <<now, store, cache, blacklist, redisUp, tokens, locks, connections, redisClient>>

\* routes/api/auth.js POST /register: only username, email, password and the
\* names are passed on
StartRegister(s, name) ==
  /\ Free(s)
  /\ hist.writes < MaxWrites
  /\ req' = [req EXCEPT ![s] = [Idle EXCEPT !.op = "register", !.pc = "rfind",
                                           !.name = name]]
  /\ hist' = [hist EXCEPT !.writes = @ + 1]
  /\ UNCHANGED <<now, store, cache, blacklist, redisUp, tokens, locks, connections, redisClient>>

\* the stored user is one a caller without the admin role may not touch: a
\* manager, an administrator, or a user of another tenant
Protected(row, caller) ==
  /\ row.exists
  /\ \/ MANAGER \in row.roles
     \/ ADMIN \in row.roles
     \/ row.tenantId # caller.tenantId

\* the check of PUT or DELETE on the user getUserById returned
Guard(s) ==
  /\ req[s].pc = "guard"
  /\ LET r == req[s]
         g == IF r.op = "put" THEN putGuard(r.user, r.id, r.cur, r.body)
              ELSE deleteGuard(r.user, r.id, r.cur)
         p == r.id \in UserIds /\ Protected(store[r.id], r.tok)
     IN  req' = IF g = "ok"
                THEN [req EXCEPT ![s].pc = "txfind",
                                 ![s].protected = p,
                                 ![s].body = IF r.op = "put"
                                             THEN putBody(r.user, r.id, r.body) ELSE @]
                ELSE [req EXCEPT ![s] = [Finished(@, Answer(g)) EXCEPT
                                           !.ret = g, !.protected = p]]
  /\ UNCHANGED <<now, store, cache, blacklist, redisUp, tokens, hist, locks, connections, redisClient>>

\* stage after the middleware, per route
FirstStage(op) ==
  CASE op = "logout" -> "revoke"
    [] op = "post" -> "rfind"
    [] OTHER -> "cget"

\* authenticate, then hasRole where the route has it, then the handler up to
\* its first await
Entry(r, t) ==
  LET g == authenticate(r.tok, t)
  IN  IF g # "ok" THEN g
      ELSE IF r.op \in {"post", "delete"} /\ ~hasRole({ADMIN, MANAGER}, r.tok)
           THEN "AUTH_INSUFFICIENT_PERMISSIONS"
      ELSE IF r.op = "post" THEN postGuard(r.tok, r.body)
      ELSE "ok"

GateStep(s) ==
  /\ req[s].pc = "gate"
  /\ LET r == req[s]
         g == authenticate(r.tok, now)
         e == Entry(r, now)
         gated == r.op \in {"post", "delete"}
         seen == [r EXCEPT !.gate = g, !.gateAt = now,
                           !.sawRevoked = r.tok \in hist.revoked,
                           !.sawLoggedOut = r.tok \in hist.loggedOut,
                           !.listed = \E b \in blacklist : b.tok = r.tok,
                           !.granted = g = "ok" /\ gated
                                       /\ hasRole({ADMIN, MANAGER}, r.tok),
                           !.entitled = /\ r.tok.sub \in UserIds
                                        /\ store[r.tok.sub].exists
                                        /\ hasRole({ADMIN, MANAGER}, store[r.tok.sub]),
                           !.user = IF g = "ok" THEN r.tok ELSE NoToken]
     IN  req' = IF e = "ok"
                THEN [req EXCEPT ![s] = [seen EXCEPT
                        !.pc = FirstStage(r.op),
                        !.body = IF r.op = "post" THEN postBody(r.tok, r.body) ELSE @]]
                ELSE [req EXCEPT ![s] = Finished(seen, e)]
  /\ UNCHANGED <<now, store, cache, blacklist, redisUp, tokens, hist, locks, connections, redisClient>>

(* ------------- SysUserService.updateUser and deleteUser --------------- *)
\* user.update(userData): the fields of the body set on the instance
applyBody(inst, body) ==
  [inst EXCEPT !.roles = IF body.hasRoles THEN body.roles ELSE @,
               !.tenantId = IF body.hasLoginTenant /\ BoundUserModel = "sysUser"
                            THEN body.login_tenant_id
                            ELSE IF body.hasTenant THEN body.tenantId ELSE @,
               !.status = IF body.hasStatus THEN body.status ELSE @,
               !.salt = IF body.hasSalt THEN body.salt ELSE @]

\* another transaction holds the row: it has written and not yet committed
Locked(id, s) ==
  \E o \in Slots \ {s} : req[o].id = id /\ req[o].pc \in {"txdel", "commit"}

\* getUserModel (before the try of updateUser and deleteUser), then
\* User.findByPk(id, {transaction})
TxFind(s) ==
  /\ req[s].pc = "txfind"
  /\ LET row == IF req[s].id \in UserIds THEN store[req[s].id] ELSE NoRow
     IN  req' = IF getUserModelThrows
                THEN [req EXCEPT ![s] = Finished(@, ConnectionError)]
                ELSE IF row.exists
                THEN [req EXCEPT ![s].inst = row, ![s].pc = "txwrite"]
                ELSE [req EXCEPT ![s] = Finished(@, "USER_NOT_FOUND")]
  /\ connections' = getConnection
  /\ UNCHANGED <<now, store, cache, blacklist, redisUp, tokens, hist, locks, redisClient>>

\* user.update(userData, {transaction}) or user.destroy({transaction}): the
\* statement waits for the row, its effect is visible to others at commit
TxWrite(s) ==
  /\ req[s].pc = "txwrite"
  /\ ~Locked(req[s].id, s)
  /\ req' = [req EXCEPT ![s].tx = IF req[s].op = "put"
                                  THEN applyBody(req[s].inst, req[s].body)
                                  ELSE req[s].inst,
                        ![s].pc = "txdel"]
  /\ UNCHANGED <<now, store, cache, blacklist, redisUp, tokens, hist, locks, connections, redisClient>>

\* redisClient.del(`user:${id}`), inside the transaction callback
TxDel(s) ==
  /\ req[s].pc = "txdel"
  /\ cache' = RedisDel(req[s].id)
  /\ LET r == [req[s] EXCEPT !.outage = @ \/ ~redisUp]
     IN  req' = IF redisThrows(redisUp)
                THEN [req EXCEPT ![s] =
                        Finished(r, IF r.op = "put" THEN "USER_UPDATE_FAILED"
                                    ELSE "USER_DELETE_FAILED")]
                ELSE [req EXCEPT ![s] = [r EXCEPT !.pc = "commit"]]
  /\ UNCHANGED <<now, store, blacklist, redisUp, tokens, hist, locks, connections, redisClient>>

\* tx.commit() and the answer of the route.  sys_user has no deletedAt
\* column: destroy removes the row.
TxCommit(s) ==
  /\ req[s].pc = "commit"
  /\ LET r == req[s]
         cur == store[r.id]
         new == IF r.op = "put" THEN Save(cur, r.inst, r.tx) ELSE NoRow
         wrote == new # cur
         rows == [store EXCEPT ![r.id] = IF wrote /\ r.op = "put"
                                         THEN [new EXCEPT !.rev = @ + 1] ELSE new]
     IN  /\ store' = rows
         /\ hist' = [hist EXCEPT
                       !.returned[r.id] = IF r.op = "put" THEN rows[r.id].rev ELSE @,
                       !.base = IF ADMIN \in r.tok.roles \/ r.op = "delete"
                                THEN AdminSet(rows) ELSE @]
         /\ req' = [req EXCEPT ![s] =
                      [Finished(r, "ok") EXCEPT
                         !.staleLeft = /\ cache[r.id].present
                                       /\ \/ r.op = "delete"
                                          \/ cache[r.id].snap.rev < rows[r.id].rev,
                         !.wrote = wrote,
                         !.protected = Protected(cur, r.tok)]]
  /\ UNCHANGED <<now, cache, blacklist, redisUp, tokens, locks, connections, redisClient>>

(* ---------------------- SysUserService.register ----------------------- *)
\* getUserModel (before the try), then User.findOne({where: username or
\* email})
RegFind(s) ==
  /\ req[s].pc = "rfind"
  /\ req' = IF getUserModelThrows
            THEN [req EXCEPT ![s] = Finished(@, ConnectionError)]
            ELSE IF req[s].name \in UserIds /\ store[req[s].name].exists
            THEN [req EXCEPT ![s] = Finished(@, "USER_USERNAME_EXISTS")]
            ELSE [req EXCEPT ![s].pc = "rcreate"]
  /\ connections' = getConnection
  /\ UNCHANGED <<now, store, cache, blacklist, redisUp, tokens, hist, locks, redisClient>>

\* User.create in a transaction and its commit; a row created meanwhile
\* under the same key makes the insert fail
RegCreate(s) ==
  /\ req[s].pc = "rcreate"
  /\ LET r == req[s]
         row == NewRow(IF r.body.hasRoles THEN r.body.roles ELSE {USER},
                       IF r.body.hasTenant THEN r.body.tenantId ELSE Undefined,
                       STATUS_NORMAL)
         rows == [store EXCEPT ![r.name] = row]
     IN  IF store[r.name].exists
         THEN /\ req' = [req EXCEPT ![s] = Finished(@, "USER_REGISTRATION_FAILED")]
              /\ UNCHANGED <<store, hist, redisClient>>
         ELSE /\ store' = rows
              /\ hist' = [hist EXCEPT
                            !.base = IF ADMIN \in r.tok.roles THEN AdminSet(rows) ELSE @]
              /\ req' = [req EXCEPT ![s] = Finished(@, "ok")]
  /\ UNCHANGED <<now, cache, blacklist, redisUp, tokens, locks, connections, redisClient>>

(* --------------------------- initial states --------------------------- *)
Hist0(rows) ==
  [revoked |-> {}, loggedOut |-> {}, holds |-> [s \in Slots |-> NoHold],
   returned |-> [u \in UserIds |-> 0],
   wrong |-> [u \in UserIds |-> 0], okLogins |-> [u \in UserIds |-> 0],
   calls |-> 0, counting |-> FALSE, writes |-> 0, base |-> AdminSet(rows),
   connects |-> 0, scheduledDown |-> 0,
   made |-> {}, opened |-> {},
   start |-> rows]

\* tokens held by the users of rows, with the role codes and the tenant of
\* the row as claims: the form hasRole, tenantAccess and the routes read
TokensOf(rows) == {generateToken(u, rows[u], 0) : u \in {x \in UserIds : rows[x].exists}}

InitWith(rows, toks) ==
  /\ now = 0
  /\ store = rows
  /\ cache = [u \in UserIds |-> NoEntry]
  /\ blacklist = {}
  /\ redisUp = TRUE
  /\ tokens = toks
  /\ req = [s \in Slots |-> Idle]
  /\ locks = [n \in LockNames |-> NoLock]
  /\ connections = "connected"
  /\ redisClient = NewRedisClient

(* ------------- token life cycle: login, logout, authenticate ---------- *)
TokenRows ==
  [u \in UserIds |-> IF u = "u1" THEN NewRow({USER}, "t1", STATUS_NORMAL) ELSE NoRow]

InitToken == InitWith(TokenRows, {}) /\ hist = Hist0(TokenRows)

NextToken ==
  \/ Tick
  \/ \E s \in Slots : StartLogin(s, "u1", "Correct1!")
  \/ \E s \in Slots : LoginFind(s)
  \/ \E s \in Slots : LoginCheck(s)
  \/ \E s \in Slots, tok \in tokens : StartLogout(s, tok)
  \/ \E s \in Slots : LogoutRevoke(s)
  \/ \E s \in Slots : LogoutSave(s)
  \/ \E s \in Slots : GateStep(s)

SpecToken == InitToken /\ [][NextToken]_vars

(* ------- cache of user:<id>: getUserById against updateUser ----------- *)
CacheRows ==
  [u \in UserIds |-> CASE u = "u1" -> NewRow({ADMIN}, "t1", STATUS_NORMAL)
                       [] u = "u2" -> NewRow({USER}, "t1", STATUS_NORMAL)
                       [] OTHER -> NoRow]

InitCache == InitWith(CacheRows, TokensOf(CacheRows)) /\ hist = Hist0(CacheRows)

NextCache ==
  \/ \E s \in Slots, tok \in tokens, body \in Bodies : StartPut(s, tok, "u2", body)
  \/ \E s \in Slots, tok \in tokens : StartMe(s, tok)
  \/ \E s \in Slots : GateStep(s)
  \/ \E s \in Slots : GetCache(s)
  \/ \E s \in Slots : GetRead(s)
  \/ \E s \in Slots : GetSet(s)
  \/ \E s \in Slots : Guard(s)
  \/ \E s \in Slots : TxFind(s)
  \/ \E s \in Slots : TxWrite(s)
  \/ \E s \in Slots : TxDel(s)
  \/ \E s \in Slots : TxCommit(s)
  \/ \E u \in UserIds : CacheExpire(u)

SpecCache == InitCache /\ [][NextCache]_vars

(* ------------- user administration: register, POST, PUT, DELETE ------- *)
AdminRows ==
  [u \in UserIds |-> CASE u = "u1" -> NewRow({ADMIN}, "t1", STATUS_NORMAL)
                       [] u = "u2" -> NewRow({MANAGER}, "t1", STATUS_NORMAL)
                       [] OTHER -> NewRow({USER}, "t1", STATUS_NORMAL)]

InitAdmin == InitWith(AdminRows, TokensOf(AdminRows)) /\ hist = Hist0(AdminRows)

\* the requests are about one user: u3 updates itself, the manager and the
\* administrator update, delete and create it
NextAdmin ==
  \/ \E s \in Slots, tok \in tokens, body \in Bodies : StartPut(s, tok, "u3", body)
  \/ \E s \in Slots, tok \in tokens : StartDelete(s, tok, "u3")
  \/ \E s \in Slots, tok \in tokens, body \in Bodies : StartPost(s, tok, "u3", body)
  \/ \E s \in Slots : StartRegister(s, "u3")
  \/ \E s \in Slots : GateStep(s)
  \/ \E s \in Slots : GetCache(s)
  \/ \E s \in Slots : GetRead(s)
  \/ \E s \in Slots : GetSet(s)
  \/ \E s \in Slots : Guard(s)
  \/ \E s \in Slots : TxFind(s)
  \/ \E s \in Slots : TxWrite(s)
  \/ \E s \in Slots : TxDel(s)
  \/ \E s \in Slots : TxCommit(s)
  \/ \E s \in Slots : RegFind(s)
  \/ \E s \in Slots : RegCreate(s)
  \/ \E u \in UserIds : CacheExpire(u)

SpecAdmin == InitAdmin /\ [][NextAdmin]_vars

(* --------- login on normal, frozen, deleted and unknown accounts ------- *)
\* u1 is normal or frozen, u2 is frozen and may be soft-deleted, u3 is unknown
InitStatus ==
  \E st \in {STATUS_NORMAL, STATUS_FROZEN}, del \in {0, 1} :
    LET rows == [u \in UserIds |->
                   CASE u = "u1" -> NewRow({USER}, "t1", st)
                     [] u = "u2" -> [NewRow({MANAGER}, "t1", STATUS_FROZEN)
                                       EXCEPT !.del_flag = del]
                     [] OTHER -> NoRow]
    IN  InitWith(rows, {}) /\ hist = Hist0(rows)

NextStatus ==
  \/ \E s \in Slots, u \in UserIds, pw \in Passwords : StartLogin(s, u, pw)
  \/ \E s \in Slots : LoginFind(s)
  \/ \E s \in Slots : LoginCheck(s)

SpecStatus == InitStatus /\ [][NextStatus]_vars

(* --------------- one request through the middleware chain ------------- *)
PipeRoleSets ==
  {{}, {ADMIN}, {MANAGER}, {USER}, {ADMIN, USER}, {MANAGER, USER},
   {RoleInstance[ADMIN]}}

\* tokens signed with the secret, expired (exp = 0) or not
PipeTokens ==
  {[kind |-> "jwt", sub |-> "u1", roles |-> rs, tenantId |-> "t1", iat |-> 0, exp |-> e] :
     rs \in PipeRoleSets, e \in {0, ExpiresInSec}}

RevokedToken ==
  [kind |-> "jwt", sub |-> "u1", roles |-> {ADMIN}, tenantId |-> "t1",
   iat |-> 0, exp |-> ExpiresInSec]

RoleArguments ==
  {OneRole(r) : r \in Roles}
    \cup {RoleList(rs) : rs \in {<<>>, <<ADMIN, MANAGER>>, <<MANAGER, ADMIN>>,
                                  <<ADMIN, ADMIN>>} \cup {<<a>> : a \in Roles}}

\* the blacklist is empty or holds the entry logout wrote for RevokedToken
InitPipe ==
  /\ now = 0
  /\ store = TokenRows
  /\ cache = [u \in UserIds |-> NoEntry]
  /\ blacklist \in {{}, {[tok |-> RevokedToken, hasTtl |-> TRUE,
                           at |-> ExpiresInSec * MsPerSecond]}}
  /\ redisUp = TRUE
  /\ tokens = PipeTokens
  /\ req = [s \in Slots |-> Idle]
  /\ locks = [n \in LockNames |-> NoLock]
  /\ connections = "connected"
  /\ redisClient = NewRedisClient
  /\ hist = Hist0(TokenRows)

NextPipe ==
  \/ RedisDown
  \/ RedisUp
  \/ \E tok \in tokens \cup {NoToken, EmptyToken, BadToken}, roles \in RoleArguments,
        useRole \in BOOLEAN, useTenant \in BOOLEAN, params \in {"t1", "t2", Undefined} :
       StartPipe(1, tok, roles, useRole, useTenant, params)
  \/ PipeAuthenticate(1)
  \/ PipeHasRole(1)
  \/ PipeTenant(1)
  \/ PipeHandler(1)

SpecPipe == InitPipe /\ [][NextPipe]_vars

(* --------- the services while the Redis connection comes and goes ----- *)
\* the administrator writes u2 while u2 logs in and reads its profile
NextOutage ==
  \/ RedisDown
  \/ RedisUp
  \/ StartPut(1, generateToken("u1", CacheRows["u1"], 0), "u2", RoleBody({ADMIN}))
  \/ StartDelete(1, generateToken("u1", CacheRows["u1"], 0), "u2")
  \/ \E tok \in {k \in tokens : k.sub = "u2"} : StartMe(MaxReq, tok)
  \/ StartLogin(MaxReq, "u2", "Correct1!")
  \/ \E s \in Slots : LoginFind(s)
  \/ \E s \in Slots : LoginCheck(s)
  \/ \E s \in Slots : GateStep(s)
  \/ \E s \in Slots : GetCache(s)
  \/ \E s \in Slots : GetRead(s)
  \/ \E s \in Slots : GetSet(s)
  \/ \E s \in Slots : Guard(s)
  \/ \E s \in Slots : TxFind(s)
  \/ \E s \in Slots : TxWrite(s)
  \/ \E s \in Slots : TxDel(s)
  \/ \E s \in Slots : TxCommit(s)

SpecOutage == InitCache /\ [][NextOutage]_vars

(* ------------- the permission list login collects --------------------- *)
\* u1 and u2 hold any set of roles
InitPerms ==
  \E r1 \in SUBSET Roles, r2 \in SUBSET Roles :
    LET rows == [u \in UserIds |->
                   IF u = "u1" THEN NewRow(r1, "t1", STATUS_NORMAL)
                   ELSE IF u = "u2" THEN NewRow(r2, "t2", STATUS_NORMAL)
                   ELSE NoRow]
    IN  InitWith(rows, {}) /\ hist = Hist0(rows)

NextPerms ==
  \/ \E s \in Slots, u \in {"u1", "u2"} : StartLogin(s, u, "Correct1!")
  \/ \E s \in Slots : LoginFind(s)
  \/ \E s \in Slots : LoginCheck(s)

SpecPerms == InitPerms /\ [][NextPerms]_vars

(* ------------- authenticate while Redis comes and goes ---------------- *)
NextGate ==
  \/ Tick
  \/ RedisDown
  \/ RedisUp
  \/ StartLogin(MaxReq, "u1", "Correct1!")
  \/ \E s \in Slots : LoginFind(s)
  \/ \E s \in Slots : LoginCheck(s)
  \/ \E tok \in tokens \cup {NoToken, EmptyToken, BadToken} : StartLogout(1, tok)
  \/ \E s \in Slots : LogoutRevoke(s)
  \/ \E s \in Slots : LogoutSave(s)
  \/ \E s \in Slots : GateStep(s)

SpecGate == InitToken /\ [][NextGate]_vars

(* -------- roles of a token against the roles of the stored user ------- *)
\* the administrator takes the manager role from u2 while u2 and others use
\* the routes behind hasRole
NextStale ==
  \/ \E s \in Slots : StartPut(s, generateToken("u1", AdminRows["u1"], 0), "u2",
                                RoleBody({USER}))
  \/ \E s \in Slots, tok \in tokens, body \in Bodies : StartPost(s, tok, "u3", body)
  \/ \E s \in Slots : GateStep(s)
  \/ \E s \in Slots : GetCache(s)
  \/ \E s \in Slots : GetRead(s)
  \/ \E s \in Slots : GetSet(s)
  \/ \E s \in Slots : Guard(s)
  \/ \E s \in Slots : TxFind(s)
  \/ \E s \in Slots : TxWrite(s)
  \/ \E s \in Slots : TxDel(s)
  \/ \E s \in Slots : TxCommit(s)
  \/ \E s \in Slots : RegFind(s)

SpecStale == InitAdmin /\ [][NextStale]_vars

(* ---------------------- login and the lockout fields ------------------ *)
\* a row after k failed logins recorded by incrementFailedLogins at time t
RECURSIVE Failures(_, _, _)
Failures(row, k, t) ==
  IF k = 0 THEN row ELSE Failures(user_incrementFailedLogins(row, t), k - 1, t)

\* the instants the earlier failures were recorded at: the lock they set ends
\* after the next clock step, or a full window from now
PastFailureTimes == {TickMs - LockWindowMs, 0}

(* ---- the services before the first database connection is made ------ *)
\* the process has just started: no connection is cached
InitBoundary ==
  /\ now = 0
  /\ store = CacheRows
  /\ cache = [u \in UserIds |-> NoEntry]
  /\ blacklist = {}
  /\ redisUp = TRUE
  /\ tokens = TokensOf(CacheRows)
  /\ req = [s \in Slots |-> Idle]
  /\ locks = [n \in LockNames |-> NoLock]
  /\ connections = "none"
  /\ redisClient = NewRedisClient
  /\ hist = Hist0(CacheRows)

NextBoundary ==
  \/ DbDown
  \/ DbUp
  \/ RedisDown
  \/ RedisUp
  \/ StartPut(1, generateToken("u1", CacheRows["u1"], 0), "u2", RoleBody({ADMIN}))
  \/ StartDelete(1, generateToken("u1", CacheRows["u1"], 0), "u2")
  \/ \E tok \in {k \in tokens : k.sub = "u2"} : StartMe(MaxReq, tok)
  \/ \E pw \in Passwords : StartLogin(MaxReq, "u2", pw)
  \/ \E s \in Slots : LoginFind(s)
  \/ \E s \in Slots : LoginCheck(s)
  \/ \E s \in Slots : GateStep(s)
  \/ \E s \in Slots : GetCache(s)
  \/ \E s \in Slots : GetRead(s)
  \/ \E s \in Slots : GetSet(s)
  \/ \E s \in Slots : Guard(s)
  \/ \E s \in Slots : TxFind(s)
  \/ \E s \in Slots : TxWrite(s)
  \/ \E s \in Slots : TxDel(s)
  \/ \E s \in Slots : TxCommit(s)

SpecBoundary == InitBoundary /\ [][NextBoundary]_vars

(* changePassword while the connection to the database may fail at commit *)
NewPasswords == {"Correct1!", "N3w!Passw0rd"}

NextPassword ==
  \/ Tick
  \/ \E id \in {"u1", "u3"}, cur \in Passwords, new \in NewPasswords :
       StartChangePassword(1, id, cur, new)
  \/ CpFind(1)
  \/ CpCheck(1)
  \/ CpSave(1)
  \/ \E storeUp \in BOOLEAN : CpCommit(1, storeUp)

SpecPassword == InitToken /\ [][NextPassword]_vars

(* ------ the saves of a user row: update, password change, login ------- *)
\* u2 updates its own account, logs in and changes its password
SaveBodies ==
  {NoBody, SaltBody("x"), StatusBody(STATUS_FROZEN), RoleBody({ADMIN}),
   [NoBody EXCEPT !.hasTenant = TRUE, !.tenantId = "t2"], LoginTenantBody("t2")}

NextSave ==
  \/ \E body \in SaveBodies :
       StartPut(1, generateToken("u2", CacheRows["u2"], 0), "u2", body)
  \/ StartLogin(1, "u2", "Correct1!")
  \/ LoginFind(1)
  \/ LoginCheck(1)
  \/ GateStep(1)
  \/ GetCache(1)
  \/ GetRead(1)
  \/ GetSet(1)
  \/ Guard(1)
  \/ TxFind(1)
  \/ TxWrite(1)
  \/ TxDel(1)
  \/ TxCommit(1)
  \/ \E cur \in Passwords, new \in NewPasswords :
       StartChangePassword(MaxReq, "u2", cur, new)
  \/ CpFind(MaxReq)
  \/ CpCheck(MaxReq)
  \/ CpSave(MaxReq)
  \/ \E storeUp \in BOOLEAN : CpCommit(MaxReq, storeUp)

SpecSave == InitCache /\ [][NextSave]_vars

(* locks: workers acquire and release while time passes and the connection
   comes and goes *)
InitLock == InitWith(TokenRows, {}) /\ hist = Hist0(TokenRows)

NextLock ==
  \/ Tick
  \/ RedisDown
  \/ RedisUp
  \/ \E s \in Slots, name \in LockNames, ttl \in LockTtls :
       StartAcquire(s, name, ttl)
  \/ \E s \in Slots : AcquireSet(s)
  \/ \E name \in LockNames : StartRelease(MaxReq, name)
  \/ ReleaseDel(MaxReq)

SpecLock == InitLock /\ [][NextLock]_vars

(* workers that follow the protocol: only a worker whose acquireLock returned
   true calls releaseLock, once, for that name *)
NextHolders ==
  \/ Tick
  \/ \E s \in Slots, name \in LockNames, ttl \in LockTtls :
       StartAcquire(s, name, ttl)
  \/ \E s \in Slots : AcquireSet(s)
  \/ \E s \in Slots : hist.holds[s].held /\ StartRelease(s, hist.holds[s].name)
  \/ \E s \in Slots : ReleaseDel(s)

\* the history of who holds what is kept in this specification only
InitHolders ==
  InitWith(TokenRows, {}) /\ hist = [Hist0(TokenRows) EXCEPT !.counting = TRUE]

SpecHolders == InitHolders /\ [][NextHolders]_vars

(* ------------- the snapshot login caches, read by GET /me ------------- *)
NextRoundTrip ==
  \/ Tick
  \/ StartLogin(MaxReq, "u2", "Correct1!")
  \/ LoginFind(MaxReq)
  \/ LoginCheck(MaxReq)
  \/ \E tok \in {k \in tokens : k.sub = "u2"} : StartMe(1, tok)
  \/ GateStep(1)
  \/ GetCache(1)
  \/ GetRead(1)
  \/ GetSet(1)

SpecRoundTrip == InitCache /\ [][NextRoundTrip]_vars

(* --------- utils/database.js getConnection, closeAllConnections ------- *)
\* the Sequelize instances the process creates, in the order of creation;
\* connections holds the name of the cached one.  One database type is
\* modelled: the entries of the table are independent of each other
Instances == <<"conn1", "conn2", "conn3", "conn4">>
InstanceNames == {Instances[i] : i \in 1 .. Len(Instances)}
Cached == connections \in InstanceNames

\* getConnection(type) up to its await: the cached connection, or a new
\* Sequelize instance whose authenticate() is awaited
GetConnectionCall(s) ==
  /\ Free(s)
  /\ Cached \/ Cardinality(hist.made) < Len(Instances)
  /\ LET c == Instances[Cardinality(hist.made) + 1]
         r == [Idle EXCEPT !.op = "getConnection"]
     IN  IF Cached
         THEN /\ req' = [req EXCEPT ![s] = [Finished(r, "ok") EXCEPT !.ret = connections]]
              /\ hist' = hist
         ELSE /\ req' = [req EXCEPT ![s] = [r EXCEPT !.pc = "init", !.connection = c]]
              /\ hist' = [hist EXCEPT !.made = @ \cup {c}]
  /\ UNCHANGED <<now, store, cache, blacklist, redisUp, tokens, locks, connections, redisClient>>

\* authenticate() has settled: on success connections[type] = connection
\* and the connection is returned, else the error is thrown
GetConnectionInit(s) ==
  /\ req[s].op = "getConnection" /\ req[s].pc = "init"
  /\ LET c == req[s].connection
     IN  IF connections = "unreachable"
         THEN /\ req' = [req EXCEPT ![s] = Finished(@, ConnectionError)]
              /\ UNCHANGED <<connections, hist>>
         ELSE /\ connections' = c
              /\ hist' = [hist EXCEPT !.opened = @ \cup {c}]
              /\ req' = [req EXCEPT ![s] = [Finished(@, "ok") EXCEPT !.ret = c]]
  /\ UNCHANGED <<now, store, cache, blacklist, redisUp, tokens, locks, redisClient>>

\* closeAllConnections() up to its await: connections[type].close()
CloseAllCall(s) ==
  /\ Free(s)
  /\ LET r == [Idle EXCEPT !.op = "closeAll"]
     IN  req' = IF Cached
                THEN [req EXCEPT ![s] = [r EXCEPT !.pc = "closing",
                                                  !.connection = connections]]
                ELSE [req EXCEPT ![s] = Finished(r, "ok")]
  /\ UNCHANGED <<now, store, cache, blacklist, redisUp, tokens, hist, locks, connections, redisClient>>

\* close() has resolved: delete connections[type]
CloseAllDone(s) ==
  /\ req[s].op = "closeAll" /\ req[s].pc = "closing"
  /\ connections' = "none"
  /\ hist' = [hist EXCEPT !.opened = @ \ {req[s].connection}]
  /\ req' = [req EXCEPT ![s] = Finished(@, "ok")]
  /\ UNCHANGED <<now, store, cache, blacklist, redisUp, tokens, locks, redisClient>>

NextConn ==
  \/ DbDown
  \/ DbUp
  \/ \E s \in Slots : GetConnectionCall(s)
  \/ \E s \in Slots : GetConnectionInit(s)
  \/ CloseAllCall(MaxReq)
  \/ CloseAllDone(MaxReq)

SpecConn == InitBoundary /\ [][NextConn]_vars

(* ------------- utils/redis.js reconnecting: the retry counter --------- *)
\* connect events taken by the specification of the retry counter
MaxConnects == 2

\* a timer of retryConnection was set while the server is down
Scheduled(c, d) == d.timers > c.timers /\ ~redisUp

\* the history after a call that took the client from c to d
Retried(c, d) ==
  [hist EXCEPT !.scheduledDown = IF Scheduled(c, d) THEN @ + 1 ELSE @]

\* connect() called at load or by ensureConnection
ConnectCall(threw) ==
  /\ redisClient' = connect(redisClient, threw)
  /\ hist' = Retried(redisClient, redisClient')
  /\ UNCHANGED <<now, store, cache, blacklist, redisUp, tokens, req, locks, connections>>

\* the callback of setTimeout in retryConnection: this.connect().catch(...)
RetryTimer(threw) ==
  /\ redisClient.timers > 0
  /\ LET fired == [redisClient EXCEPT !.timers = @ - 1]
     IN  /\ redisClient' = connect(fired, threw)
         /\ hist' = Retried(fired, redisClient')
  /\ UNCHANGED <<now, store, cache, blacklist, redisUp, tokens, req, locks, connections>>

\* client.on('connect'): the server has accepted a connection of a client
OnConnect ==
  /\ redisClient.client # "null"
  /\ redisUp
  /\ hist.connects < MaxConnects
  /\ redisClient' = [redisClient EXCEPT !.isConnected = TRUE, !.retryCount = 0]
  /\ hist' = [hist EXCEPT !.connects = @ + 1, !.scheduledDown = 0]
  /\ UNCHANGED <<now, store, cache, blacklist, redisUp, tokens, req, locks, connections>>

\* client.on('error'): isConnected = false, then retryConnection()
OnError ==
  /\ redisClient.client # "null"
  /\ redisClient' = retryConnection([redisClient EXCEPT !.isConnected = FALSE])
  /\ hist' = Retried(redisClient, redisClient')
  /\ UNCHANGED <<now, store, cache, blacklist, redisUp, tokens, req, locks, connections>>

\* here redisUp is the server being reachable; what the client knows of it
\* is redisClient.isConnected
NextRetry ==
  \/ RedisDown
  \/ RedisUp
  \/ \E threw \in BOOLEAN : ConnectCall(threw)
  \/ \E threw \in BOOLEAN : RetryTimer(threw)
  \/ OnConnect
  \/ OnError

SpecRetry == InitLock /\ [][NextRetry]_vars

(* a holder that crashed: nobody calls releaseLock; the clock of the Redis
   server keeps running *)
NextCrash ==
  \/ Tick
  \/ RedisDown
  \/ RedisUp
  \/ \E s \in Slots, name \in LockNames, ttl \in LockTtls :
       StartAcquire(s, name, ttl)
  \/ \E s \in Slots : AcquireSet(s)

SpecCrash == InitLock /\ [][NextCrash]_vars /\ WF_vars(Tick)

InitLogin ==
  \E k \in 0 .. MaxFailed, t \in PastFailureTimes :
    LET rows == [u \in UserIds |->
                   IF u = "u1"
                   THEN Failures(NewRow({USER}, "t1", STATUS_NORMAL), k, t)
                   ELSE NoRow]
    IN  /\ InitWith(rows, {})
        /\ hist = [Hist0(rows) EXCEPT !.counting = TRUE]

NextLogin ==
  \/ Tick
  \/ \E s \in Slots, pw \in Passwords : StartLogin(s, "u1", pw)
  \/ \E s \in Slots : LoginFind(s)
  \/ \E s \in Slots : LoginCheck(s)

SpecLogin == InitLogin /\ [][NextLogin]_vars

(* ----------------------------- tenant check --------------------------- *)
\* req.user as authenticate leaves it: absent, or the decoded token
Identities ==
  {NoToken} \cup
  {[kind |-> "jwt", sub |-> "u1", roles |-> rs, tenantId |-> t,
    iat |-> 0, exp |-> ExpiresInSec] :
     rs \in {{ADMIN}, {MANAGER}, {USER}, {ADMIN, USER}}, t \in JsIds}

TenantBodies ==
  {NoBody} \cup {[NoBody EXCEPT !.hasTenant = TRUE, !.tenantId = t] : t \in JsIds}

\* the resource asked for may or may not exist
InitTenant ==
  \E rows \in {TokenRows, [u \in UserIds |-> NoRow]} :
    InitWith(rows, {}) /\ hist = Hist0(rows)

NextTenant ==
  \/ \E user \in Identities, params \in JsIds, body \in TenantBodies, query \in JsIds :
       StartTenant(1, user, params, body, query)
  \/ TenantCheck(1)
  \/ TenantHandler(1)

SpecTenant == InitTenant /\ [][NextTenant]_vars

(* ------------------------------ properties ---------------------------- *)
\* C1: once logout has stored the blacklist entry of a token, every later
\* authenticate call with that token is rejected, and with
\* AUTH_TOKEN_REVOKED at every instant before the token's exp
C1_RevokedNeverAccepted ==
  \A s \in Slots :
    (req[s].gate # "" /\ req[s].sawRevoked) =>
      /\ req[s].gate # "ok"
      /\ req[s].gateAt < req[s].tok.exp * MsPerSecond
           => req[s].gate = "AUTH_TOKEN_REVOKED"

\* C2: once updateUser has returned, no getUserById started later returns a
\* snapshot older than that write, and the entry cached under user:<id> is
\* never older than the last committed write of the user
C2_NoStaleSnapshot ==
  /\ \A s \in Slots :
       (req[s].op = "me" /\ req[s].pc = "done" /\ req[s].res.present)
         => req[s].res.snap.rev >= req[s].floor
  /\ \A u \in UserIds :
       cache[u].present => cache[u].snap.rev >= hist.returned[u]

\* no login is in flight
Quiet == \A s \in Slots : req[s].op = "login" => req[s].pc = "done"

\* C3: for a user starting unlocked with failed_attempts = 0, every login
\* with a wrong password adds one to failed_attempts, and from the fifth on
\* lock_until is set, a lock window after that attempt at the earliest
C3_FiveFailuresLock ==
  \A u \in UserIds :
    (/\ hist.start[u].exists /\ hist.start[u].failedLoginAttempts = 0
     /\ hist.start[u].lockUntil = 0 /\ hist.okLogins[u] = 0 /\ Quiet)
      => /\ store[u].failedLoginAttempts = hist.wrong[u]
         /\ hist.wrong[u] >= FailThreshold
              => /\ store[u].lockUntil >= LockWindowMs
                 /\ user_isLocked(store[u], now)

C5_NoLostIncrement ==
  \A u \in UserIds :
    (hist.start[u].exists /\ hist.okLogins[u] = 0 /\ Quiet)
      => /\ store[u].failedLoginAttempts
              = hist.start[u].failedLoginAttempts + hist.wrong[u]
         /\ store[u].failedLoginAttempts >= FailThreshold => store[u].lockUntil # 0

Supplied(r) == {r.params, bodyTenant(r.body), r.query} \ {Undefined}

\* C10: an identity with the admin role passes the tenant check; one without
\* passes only when the request carries a tenant id equal to its own, and
\* otherwise fails with AUTH_TENANT_ACCESS_DENIED and the handler does not run
C10_TenantCheck ==
  \A s \in Slots :
    (req[s].op = "tenant" /\ req[s].gate # "" /\ req[s].user.kind = "jwt")
      => IF ADMIN \in req[s].user.roles
         THEN req[s].gate = "next"
         ELSE /\ req[s].gate = "next" => req[s].user.tenantId \in Supplied(req[s])
              /\ req[s].user.tenantId \notin Supplied(req[s])
                   => /\ req[s].gate = "AUTH_TENANT_ACCESS_DENIED"
                      /\ req[s].pc = "done" /\ req[s].ret # "handled"

\* a manager of t1 asking for t2 has been refused
C10_Witness ==
  \E s \in Slots :
    /\ req[s].op = "tenant" /\ req[s].pc = "done"
    /\ req[s].user.kind = "jwt" /\ req[s].user.roles = {MANAGER}
    /\ req[s].user.tenantId = "t1" /\ req[s].params = "t2"
    /\ req[s].out = "AUTH_TENANT_ACCESS_DENIED"

C12_BlacklistEntryExpires ==
  \A e \in blacklist : e.hasTtl /\ e.at <= e.tok.exp * MsPerSecond

\* C13: a token issued at second T with duration D that has not been
\* revoked is accepted by authenticate at every second t with
\* T <= t <= T+D-1 and rejected as expired at every second t >= T+D
C13_AcceptedUntilExpiry ==
  \A s \in Slots :
    LET r == req[s]
        t == r.gateAt \div MsPerSecond
    IN  (r.gate # "" /\ r.tok.kind = "jwt" /\ ~r.sawRevoked) =>
          /\ (r.tok.iat <= t /\ t <= r.tok.iat + ExpiresInSec - 1) => r.gate = "ok"
          /\ t >= r.tok.iat + ExpiresInSec => r.gate = "AUTH_TOKEN_EXPIRED"

\* C14: the outcome of authenticate on a presented token is a function of
\* the token and the blacklist: invalid when the token cannot be verified,
\* expired when it is past exp, revoked when it is unexpired and in the
\* blacklist, and otherwise success with the token's identity as req.user
C14_OutcomeOfTokenAndBlacklist ==
  \A s \in Slots :
    LET r == req[s]
        t == r.gateAt \div MsPerSecond
    IN  (r.gate # "" /\ r.tok.kind \in {"jwt", "bad"}) =>
          /\ r.gate = IF r.tok.kind = "bad" THEN "AUTH_INVALID_TOKEN"
                      ELSE IF t >= r.tok.exp THEN "AUTH_TOKEN_EXPIRED"
                      ELSE IF r.listed THEN "AUTH_TOKEN_REVOKED"
                      ELSE "ok"
          /\ (r.gate = "ok" /\ r.pc # "done") => r.user = r.tok

\* C19: authenticate on a well-formed, unexpired token never ends in a
\* system error, whatever the state of the Redis connection
C19_NoSystemErrorFromCache ==
  \A s \in Slots :
    (/\ req[s].gate # "" /\ req[s].tok.kind = "jwt"
     /\ req[s].gateAt \div MsPerSecond < req[s].tok.exp)
      => req[s].gate # "AUTH_SYSTEM_ERROR"

\* C15: the identity authenticate attaches for a token issued by login
\* carries the id, the role codes and the tenant id the store holds for the
\* user: hasRole passes for each of the user's role codes and tenantAccess
\* passes for the user's own tenant
C15_IdentityOfLoginToken ==
  \A s \in Slots :
    LET identity == req[s].user
        row == store[identity.sub]
    IN  (identity.kind = "jwt" /\ identity \in tokens) =>
          /\ \A r \in row.roles : hasRole({r}, identity)
          /\ tenantAccess(identity, row.tenantId, NoBody, Undefined) = "next"

\* C20: the permission list login computes for a user holds exactly the
\* codes of the permissions of the user's roles that are not soft-deleted
\* and have valid status, each code once
C20_PermissionListIsUnion ==
  \A u \in UserIds :
    (cache[u].present /\ cache[u].snap.hasPerms) =>
      LET perms == cache[u].snap.permissions
          valid == {p \in PermIds : /\ PermissionRows[p].del_flag = 0
                                    /\ PermissionRows[p].status = "1"
                                    /\ PermissionRows[p].perms # ""}
          ofRoles == {p \in PermIds : \E r \in store[u].roles :
                        \E i \in 1..Len(RolePermissions[r]) : RolePermissions[r][i] = p}
      IN  /\ {perms[i] : i \in 1..Len(perms)}
               = {PermissionRows[p].perms : p \in valid \cap ofRoles}
          /\ \A i, j \in 1..Len(perms) : perms[i] = perms[j] => i = j

\* two roles sharing permissions, one with a soft-deleted and one with an
\* invalid permission, have been aggregated
C20_Witness ==
  \E u \in UserIds :
    /\ cache[u].present /\ cache[u].snap.hasPerms
    /\ store[u].roles = {ADMIN, MANAGER}
    /\ cache[u].snap.permissions = <<"user:read", "user:update", "user:delete">>

\* C16: when updateUser or deleteUser returns success, the cache holds no
\* snapshot of the target user from before the write
C16_NoSnapshotLeftBehind ==
  \A s \in Slots :
    (req[s].op \in {"put", "delete"} /\ req[s].pc = "done" /\ req[s].out = "ok")
      => ~req[s].staleLeft

\* C17: what getUserById returns after a cache miss is the user's profile
\* together with the permission list of the user's roles, and it is the
\* value written under user:<id>
C17_MissBuildsFullSnapshot ==
  \A s \in Slots :
    (/\ req[s].op = "me" /\ req[s].pc = "done"
     /\ req[s].miss /\ req[s].res.present)
      => /\ req[s].res.snap.hasPerms
         /\ req[s].res.snap.permissions = permsOf(req[s].res.snap)
         /\ req[s].written

\* C18: a call of getUserById, login, updateUser or deleteUser during which
\* Redis was unreachable does not fail because of it, and getUserById then
\* answers from the store, with a row at least as new as every write that
\* had returned when the call began
C18_OutageDoesNotFailCaller ==
  \A s \in Slots :
    (req[s].outage /\ req[s].pc = "done") =>
      /\ req[s].out \notin {"USER_DETAILS_FAILED", "AUTH_LOGIN_FAILED",
                             "USER_UPDATE_FAILED", "USER_DELETE_FAILED"}
      /\ (req[s].op = "me" /\ ~req[s].written) =>
            /\ req[s].miss
            /\ req[s].out \in {"ok", "USER_NOT_FOUND"}
            /\ req[s].res.present => req[s].res.snap.rev >= req[s].floor

\* updateUser committed a change and getUserById answered from the store,
\* both with Redis unreachable on the way
C18_Witness ==
  /\ req[1].op = "put" /\ req[1].pc = "done" /\ req[1].outage
  /\ req[1].out = "ok" /\ req[1].wrote
  /\ req[MaxReq].op = "me" /\ req[MaxReq].pc = "done" /\ req[MaxReq].outage
  /\ req[MaxReq].miss /\ req[MaxReq].res.present /\ ~req[MaxReq].written

\* the roles named by the argument of hasRole, as a set
RequiredSet(roles) ==
  IF roles.isArray THEN {roles.items[i] : i \in 1..Len(roles.items)}
  ELSE {roles.value}

\* C21: hasRole(required) lets the request of an authenticated identity
\* proceed if and only if the identity's roles and the required roles, one
\* role or a list, have an element in common; otherwise the request ends
\* with AUTH_INSUFFICIENT_PERMISSIONS and nothing after hasRole runs
C21_HasRoleIffCommonRole ==
  \A s \in Slots :
    LET r == req[s]
    IN  (r.op = "pipe" /\ r.roleOut # "") =>
          IF RequiredSet(r.required) \cap r.user.roles # {}
          THEN /\ r.roleOut = "next"
               /\ r.ran[Len(r.ran)] = "hasRole" => r.pc = AfterHasRole(r)
          ELSE /\ r.roleOut = "AUTH_INSUFFICIENT_PERMISSIONS"
               /\ r.pc = "done" /\ r.out = "AUTH_INSUFFICIENT_PERMISSIONS"
               /\ r.ran[Len(r.ran)] = "hasRole"

\* a role given alone has let a manager through, and a list without the
\* identity's role has stopped a request
C21_Witness ==
  \E s \in Slots :
    /\ req[s].op = "pipe" /\ req[s].pc = "done"
    /\ req[s].user.roles = {MANAGER, USER}
    /\ \/ /\ req[s].required = OneRole(MANAGER)
          /\ req[s].roleOut = "next" /\ req[s].ret = "handled"
       \/ /\ req[s].required = RoleList(<<ADMIN, ADMIN>>)
          /\ req[s].out = "AUTH_INSUFFICIENT_PERMISSIONS"

\* C22: a login with a wrong password ends with AUTH_INVALID_CREDENTIALS
\* whether or not the identifier belongs to an account, so the answer does
\* not tell if the account exists
C22_WrongPasswordSameAnswer ==
  \A s \in Slots :
    (req[s].op = "login" /\ req[s].pc = "done" /\ req[s].pw = "Wr0ng!")
      => req[s].out = "AUTH_INVALID_CREDENTIALS"

\* C23: login on a user whose status is not normal ends with
\* AUTH_ACCOUNT_INACTIVE; no token is issued for the user, nothing is cached
\* under the user's key and the user's row stays as it was
C23_InactiveLoginChangesNothing ==
  /\ \A s \in Slots :
       LET r == req[s]
       IN  (/\ r.op = "login" /\ r.pc = "done" /\ r.name \in UserIds
            /\ store[r.name].exists /\ store[r.name].del_flag = 0
            /\ store[r.name].status # STATUS_NORMAL)
             => r.out = "AUTH_ACCOUNT_INACTIVE" /\ r.issued = NoToken
  /\ \A u \in UserIds :
       (hist.start[u].exists /\ hist.start[u].status # STATUS_NORMAL)
         => /\ store[u] = hist.start[u]
            /\ ~cache[u].present
            /\ \A k \in tokens : k.sub # u

\* a frozen user has tried to log in with the right password
C23_Witness ==
  \E s \in Slots :
    /\ req[s].op = "login" /\ req[s].pc = "done" /\ req[s].name = "u1"
    /\ store["u1"].status = STATUS_FROZEN /\ req[s].pw = "Correct1!"
    /\ req[s].out = "AUTH_ACCOUNT_INACTIVE"

\* the functions of the route of a request, in the order of registration
Stages(r) ==
  <<"authenticate">> \o (IF r.useRole THEN <<"hasRole">> ELSE <<>>)
    \o (IF r.useTenant THEN <<"tenantAccess">> ELSE <<>>) \o <<"handler">>

ApiErrorCodes ==
  {"AUTH_TOKEN_MISSING", "AUTH_INVALID_TOKEN_FORMAT", "AUTH_TOKEN_EXPIRED",
   "AUTH_INVALID_TOKEN", "AUTH_TOKEN_REVOKED", "AUTH_SYSTEM_ERROR",
   "AUTH_REQUIRED", "AUTH_INSUFFICIENT_PERMISSIONS", "AUTH_TENANT_ACCESS_DENIED"}

\* C24: the stages of a request run in the order authenticate, hasRole,
\* tenantAccess, handler, each at most once; the first failing stage passes
\* on exactly one typed error and nothing runs after it; req.user is set
\* only after authenticate succeeded
C24_PipelineOrder ==
  \A s \in Slots :
    LET r == req[s]
    IN  r.op = "pipe" =>
          /\ Len(r.ran) <= Len(Stages(r))
          /\ r.ran = SubSeq(Stages(r), 1, Len(r.ran))
          /\ Len(r.errs) <= 1
          /\ r.errs # <<>> =>
                /\ r.pc = "done" /\ r.out = r.errs[1] /\ r.errs[1] \in ApiErrorCodes
                /\ r.ran[Len(r.ran)] # "handler" /\ r.ret # "handled"
          /\ r.user # NoToken =>
                /\ r.ran # <<>> /\ r.ran[1] = "authenticate"
                /\ r.gate = "ok" /\ r.user = r.tok
          /\ (r.pc = "done" /\ r.errs = <<>>) => r.ran = Stages(r)

\* a request with all three checks was stopped by hasRole
C24_Witness ==
  \E s \in Slots :
    /\ req[s].op = "pipe" /\ req[s].pc = "done"
    /\ req[s].useRole /\ req[s].useTenant
    /\ req[s].ran = <<"authenticate", "hasRole">>
    /\ req[s].errs = <<"AUTH_INSUFFICIENT_PERMISSIONS">>

\* C25: logout on a token that is already revoked or already expired raises
\* no error and returns true, and a token that was blacklisted is still
\* blacklisted afterwards
C25_RevokeAgainSucceeds ==
  \A s \in Slots :
    (req[s].op = "logout" /\ req[s].pc = "done" /\ req[s].again)
      => req[s].out = "ok" /\ req[s].ret = "true" /\ req[s].kept

\* C26: when logout has completed for an identity with an id, no snapshot
\* is cached under user:<id> and logout has returned true
C26_LogoutClearsSnapshot ==
  \A s \in Slots :
    (req[s].op = "logout" /\ req[s].pc = "done" /\ req[s].gate = "ok")
      => req[s].cacheGone /\ req[s].ret = "true"

\* C27: an acquireLock(name, ttl) whose command reaches Redis with a positive
\* expiry returns true, creating the key with expiry ttl, exactly when no key
\* for name exists at that instant; a call that returns false leaves the key
\* as it was
C27_AcquireIffFree ==
  \A s \in Slots :
    LET r == req[s]
    IN  (r.op = "acquireLock" /\ r.pc = "done") =>
          /\ r.reached => (r.ret = "true" <=> r.lockFree)
          /\ r.ret = "true" => r.lockMade
          /\ r.ret = "false" => r.lockKept

\* two calls were pending together on a free name: one won, the other found
\* the key and left it alone
C27_Witness ==
  \E s \in Slots, o \in Slots :
    /\ req[s].op = "acquireLock" /\ req[s].pc = "done"
    /\ req[s].rival /\ req[s].lockFree /\ req[s].ret = "true"
    /\ req[s].lockMade
    /\ req[o].op = "acquireLock" /\ req[o].pc = "done"
    /\ req[o].reached /\ ~req[o].lockFree /\ req[o].ret = "false"
    /\ req[o].lockKept

\* C27 as stated: acquireLock returns true if and only if no key for name
\* exists at that instant
C27_TrueIffNoKey ==
  \A s \in Slots :
    LET r == req[s]
    IN  (r.op = "acquireLock" /\ r.pc = "done") =>
          (r.ret = "true" <=> r.lockFree)

\* C28: every lock key carries an expiry that lies in the future and at most
\* MaxTtl seconds ahead; without any releaseLock a held lock becomes free, and
\* an acquireLock that then reaches Redis returns true
C28_CrashedHolderCannotWedge ==
  /\ [](\A n \in LockNames :
         locks[n].held =>
           /\ locks[n].hasTtl
           /\ now < locks[n].at
           /\ locks[n].at <= now + MaxTtl * MsPerSecond)
  /\ [](\A s \in Slots :
         (/\ req[s].op = "acquireLock" /\ req[s].pc = "done"
          /\ req[s].reached /\ req[s].lockFree) => req[s].ret = "true")
  /\ \A n \in LockNames :
       LockHeld(locks[n], now) ~> ~LockHeld(locks[n], now)

\* one worker took the lock and never released it; after the expiry another
\* worker took it
C28_Witness ==
  \E s \in Slots, o \in Slots :
    /\ s # o
    /\ req[s].op = "acquireLock" /\ req[s].pc = "done" /\ req[s].ret = "true"
    /\ req[o].op = "acquireLock" /\ req[o].pc = "done" /\ req[o].ret = "true"
    /\ req[s].lockName = req[o].lockName
    /\ locks[req[o].lockName].value > 0

\* C29: when an operation run through database.transaction fails, none of its
\* writes to the user table remains visible (the password written by
\* changePassword included) and the caller receives a system error
C29_FailedTransactionLeavesNoWrite ==
  \A s \in Slots :
    LET r == req[s]
    IN  (r.op = "changePassword" /\ r.pc = "done" /\ r.out # "ok") =>
          /\ r.id \in UserIds => store[r.id] = hist.start[r.id]
          /\ r.commitFailed => r.out = "USER_PASSWORD_CHANGE_FAILED"

\* the codes of the ApiErrors the services and the middleware raise
TypedCodes ==
  ApiErrorCodes \cup
  {"AUTH_INVALID_CREDENTIALS", "AUTH_ACCOUNT_INACTIVE", "AUTH_ACCOUNT_LOCKED",
   "AUTH_LOGIN_FAILED", "USER_NOT_FOUND", "USER_DETAILS_FAILED",
   "USER_UPDATE_FAILED", "USER_DELETE_FAILED"}

\* C30: a login, profile read, update or delete that fails, in the service or
\* in authenticate, ends with the code of an ApiError: the one raised, or the
\* one that wraps an unexpected failure
C30_EveryFailureIsTyped ==
  \A s \in Slots :
    LET r == req[s]
    IN  (r.op \in {"login", "me", "put", "delete"} /\ r.pc = "done"
         /\ r.out # "ok") => r.out \in TypedCodes

\* C31: the salt of a row that has one never changes, and the stored hash of
\* a row differs from the one it started with only when a password change of
\* that user has saved
C31_SaltOnceHashOnlyOnPasswordChange ==
  \A u \in UserIds :
    (store[u].exists /\ hist.start[u].exists) =>
      /\ hist.start[u].salt # "" => store[u].salt = hist.start[u].salt
      /\ store[u].password # hist.start[u].password =>
            \E s \in Slots :
              /\ req[s].op = "changePassword" /\ req[s].id = u
              /\ req[s].pc \in {"cpcommit", "done"}

\* C32: after a deleteUser that succeeded the record of the user still
\* exists in the user table and is marked deleted
C32_DeleteKeepsRecord ==
  \A s \in Slots :
    LET r == req[s]
    IN  (r.op = "delete" /\ r.pc = "done" /\ r.out = "ok") =>
          /\ r.id \in UserIds
          /\ store[r.id].exists
          /\ store[r.id].del_flag = 1

\* C33: once the logout route has answered success for a token, every
\* authenticate call with that token that starts afterwards is rejected
C33_LoggedOutTokenRejected ==
  \A s \in Slots :
    (req[s].gate # "" /\ req[s].sawLoggedOut) => req[s].gate # "ok"

\* a worker holds the lock it acquired until it calls releaseLock or the
\* expiry it asked for runs out
Holding(s) == hist.holds[s].held /\ now < hist.holds[s].until

\* C34: no two workers hold the same lock at the same time, and the key of a
\* lock that a worker holds exists
C34_OneHolder ==
  \A s \in Slots :
    Holding(s) =>
      /\ LockHeld(locks[hist.holds[s].name], now)
      /\ \A o \in Slots \ {s} :
           Holding(o) => hist.holds[o].name # hist.holds[s].name

\* C35: the commit of a PUT /users/:id whose caller is the user named by :id
\* leaves roles, status and tenant id of that user's record as they were
C35_SelfUpdateKeepsRolesStatusTenant ==
  [][\A s \in Slots :
       (/\ req[s].op = "put" /\ req[s].pc = "commit" /\ req'[s].pc = "done"
        /\ req[s].tok.sub = req[s].id) =>
          /\ store'[req[s].id].roles = store[req[s].id].roles
          /\ store'[req[s].id].status = store[req[s].id].status
          /\ store'[req[s].id].tenantId = store[req[s].id].tenantId]_vars

\* C36: retryCount stays within 0..maxRetries; a reconnect is scheduled, one
\* at a time, only while retryCount is below maxRetries; a connect event
\* resets retryCount to 0; and while the server stays down after the last
\* connect event at most maxRetries reconnects are scheduled
C36_RetryCountBounded ==
  /\ [](redisClient.retryCount \in 0 .. maxRetries)
  /\ [](hist.scheduledDown <= maxRetries)
  /\ [][((redisClient'.timers > redisClient.timers) =>
            (/\ redisClient.retryCount < maxRetries
             /\ redisClient'.timers = redisClient.timers + 1
             /\ redisClient'.retryCount = redisClient.retryCount + 1))
        /\ ((hist'.connects # hist.connects) =>
              (redisClient'.retryCount = 0))]_vars

\* the fifth reconnect of an outage that followed a connection has run and
\* none is scheduled any more
C36_Witness ==
  /\ ~redisUp
  /\ hist.connects > 0
  /\ hist.scheduledDown = maxRetries
  /\ redisClient.retryCount = maxRetries
  /\ redisClient.timers = 0

\* C37: when getUserById answers from the cache with the entry a login
\* stored, the value it returns equals the snapshot that login returned, an
\* object with the same fields
C37_CacheHitEqualsLoginSnapshot ==
  \A s, o \in Slots :
    LET g == req[s]
        l == req[o]
    IN  (/\ l.op = "login" /\ l.pc = "done" /\ l.out = "ok"
         /\ g.op = "me" /\ g.pc = "done" /\ g.out = "ok" /\ ~g.miss
         /\ g.id = l.name
         /\ g.res.snap = l.res.snap) => g.res = l.res

\* C38: at most one initialised connection exists at a time, it is the one
\* the connections table holds (or the one closeAllConnections is closing),
\* and the calls of getConnection that returned an open connection returned
\* the same one
C38_OneConnectionPerType ==
  /\ Cardinality(hist.opened) <= 1
  /\ \A c \in hist.opened :
       \/ connections = c
       \/ \E s \in Slots : req[s].pc = "closing" /\ req[s].connection = c
  /\ \A s, o \in Slots :
       (/\ req[s].op = "getConnection" /\ req[s].pc = "done"
        /\ req[o].op = "getConnection" /\ req[o].pc = "done"
        /\ req[s].ret \in hist.opened /\ req[o].ret \in hist.opened)
         => req[s].ret = req[o].ret

====
